---- MODULE Spec2Model ----
(***************************************************************************)
(* A model of the ray tracer's spatial core: axis-aligned bounding boxes,  *)
(* the primitive geometries, the flat-array BVH (construction with its     *)
(* four partition strategies, and the explicit-stack nearest-hit query).   *)
(*                                                                         *)
(* Numbers.  An f64 is modelled by an integer: finite values are exact     *)
(* integers (lengths are measured in units of a quarter of the padding of  *)
(* flat primitives and scene coordinates are multiples of that padding, so *)
(* every value the model computes is a whole number of units),             *)
(* and +infinity, -infinity and NaN are three values outside the finite    *)
(* range.  The arithmetic below follows IEEE-754 on those special values   *)
(* and is exact on the finite ones; rounding is not modelled.  Where a     *)
(* result would not be a whole number (a division, a square root) the      *)
(* operator has no value, so an input outside the exact range stops the    *)
(* check instead of being silently rounded.                                *)
(***************************************************************************)
EXTENDS Integers, Sequences, FiniteSets, TLC

VARIABLES
    input,          \* the caller's surface slice, in the caller's order
    partition_by,   \* the PartitionBy strategy of this build
    surfaces,       \* from_slice's `surfaces`: the slice the partitions permute
    partial_nodes,  \* build_tree_rec's `partial_nodes`, then BVH.tree
    frames,         \* the call stack of build_tree_rec
    status,         \* "idle", "building", "built", or how construction failed
    ray,            \* the ray of the running BVH.hit
    ray_t,          \* the caller's interval of the running BVH.hit
    stack,          \* BVH.hit's explicit stack (0-based node indices)
    acc,            \* BVH.hit's best hit so far
    shrunken_ray_t, \* BVH.hit's shrinking interval
    hpc,            \* "idle", "loop", "returned", or how the query failed
    parted,         \* the last call of PartitionBy::partition: its group and result
    placeholder_seen, \* a Placeholder was handed to bounding_box or matched in hit
    geo,            \* the last result of a direct geometry operation
    trace,          \* the running call of Camera::ray_color
    render          \* the running call of Camera::render_fork_union

bvhVars == <<input, partition_by, surfaces, partial_nodes, frames, status, parted>>
hitVars == <<ray, ray_t, stack, acc, shrunken_ray_t, hpc>>
camVars == <<trace, render>>
vars == <<input, partition_by, surfaces, partial_nodes, frames, status, parted,
          ray, ray_t, stack, acc, shrunken_ray_t, hpc, placeholder_seen, geo, camVars>>

----------------------------------------------------------------------------
(* f64 *)

PInf == 1000000
NInf == 0 - PInf
NaN == PInf + PInf

IsNaN(a) == a = NaN
IsFinite(a) == a > NInf /\ a < PInf

\* f64 == : false as soon as one side is NaN
FEq(a, b) == ~IsNaN(a) /\ ~IsNaN(b) /\ a = b
\* f64 < and <= : false as soon as one side is NaN
FLt(a, b) == ~IsNaN(a) /\ ~IsNaN(b) /\ a < b
FLe(a, b) == ~IsNaN(a) /\ ~IsNaN(b) /\ a <= b

\* f64::min / f64::max : a NaN operand is ignored
FMin(a, b) == IF IsNaN(a) THEN b ELSE IF IsNaN(b) THEN a ELSE IF a < b THEN a ELSE b
FMax(a, b) == IF IsNaN(a) THEN b ELSE IF IsNaN(b) THEN a ELSE IF a > b THEN a ELSE b

FNeg(a) == IF IsNaN(a) THEN NaN ELSE 0 - a

FAdd(a, b) ==
    IF IsNaN(a) \/ IsNaN(b) THEN NaN
    ELSE IF a = PInf THEN (IF b = NInf THEN NaN ELSE PInf)
    ELSE IF a = NInf THEN (IF b = PInf THEN NaN ELSE NInf)
    ELSE IF ~IsFinite(b) THEN b
    ELSE a + b

FSub(a, b) == FAdd(a, FNeg(b))

Sign(a) == IF a > 0 THEN 1 ELSE IF a < 0 THEN 0 - 1 ELSE 0
Abs(a) == IF a < 0 THEN 0 - a ELSE a

FMul(a, b) ==
    IF IsNaN(a) \/ IsNaN(b) THEN NaN
    ELSE IF ~IsFinite(a) \/ ~IsFinite(b)
         THEN (IF a = 0 \/ b = 0 THEN NaN
               ELSE IF Sign(a) * Sign(b) > 0 THEN PInf ELSE NInf)
    ELSE a * b

\* the exact quotient of two finite values; no value when it is not whole
ExactQuot(a, b) == CHOOSE q \in (0 - Abs(a))..Abs(a) : q * b = a

\* f64 / : x/0 is an infinity of x's sign, 0/0 and inf/inf are NaN
\* (the zero divisors of the model are +0.0)
FDiv(a, b) ==
    IF IsNaN(a) \/ IsNaN(b) THEN NaN
    ELSE IF b = 0 THEN (IF a = 0 THEN NaN ELSE IF a > 0 THEN PInf ELSE NInf)
    ELSE IF ~IsFinite(a) THEN (IF ~IsFinite(b) THEN NaN
                               ELSE IF Sign(a) * Sign(b) > 0 THEN PInf ELSE NInf)
    ELSE IF ~IsFinite(b) THEN 0
    ELSE ExactQuot(a, b)

\* f64::sqrt of a finite non-negative value; no value when it is not whole
FSqrt(a) == CHOOSE s \in 0..a : s * s = a

----------------------------------------------------------------------------
(* Vector3 *)

Vec(x, y, z) == [x |-> x, y |-> y, z |-> z]
ZERO == Vec(0, 0, 0)

vadd(a, b) == Vec(FAdd(a.x, b.x), FAdd(a.y, b.y), FAdd(a.z, b.z))
vsub(a, b) == Vec(FSub(a.x, b.x), FSub(a.y, b.y), FSub(a.z, b.z))
vdiv(a, b) == Vec(FDiv(a.x, b.x), FDiv(a.y, b.y), FDiv(a.z, b.z))
vscale(a, s) == Vec(FMul(a.x, s), FMul(a.y, s), FMul(a.z, s))
dot(a, b) == FAdd(FAdd(FMul(a.x, b.x), FMul(a.y, b.y)), FMul(a.z, b.z))
cross(a, b) ==
    Vec(FSub(FMul(a.y, b.z), FMul(a.z, b.y)),
        FSub(FMul(a.z, b.x), FMul(a.x, b.z)),
        FSub(FMul(a.x, b.y), FMul(a.y, b.x)))
length_squared(a) == dot(a, a)

(* Ray *)
Ray(origin, direction) == [origin |-> origin, direction |-> direction]
ray_at(r, t) == vadd(r.origin, vscale(r.direction, t))

(* Interval *)
Interval(lo, hi) == [min |-> lo, max |-> hi]
interval_contains(iv, x) == FLe(iv.min, x) /\ FLe(x, iv.max)
interval_surrounds(iv, x) == FLt(iv.min, x) /\ FLt(x, iv.max)
interval_clamp(iv, x) ==
    IF FLt(x, iv.min) THEN iv.min ELSE IF FLt(iv.max, x) THEN iv.max ELSE x

----------------------------------------------------------------------------
(* Option<T>: None is the empty sequence, Some(x) the one-element sequence *)
None == <<>>
Some(x) == <<x>>
IsSome(o) == Len(o) = 1
Unwrap(o) == o[1]

----------------------------------------------------------------------------
(* AABB *)

Aabb(lo, hi) == [min |-> lo, max |-> hi]
EMPTY == Aabb(Vec(PInf, PInf, PInf), Vec(NInf, NInf, NInf))

aabb_new(a, b) ==
    Aabb(Vec(FMin(a.x, b.x), FMin(a.y, b.y), FMin(a.z, b.z)),
         Vec(FMax(a.x, b.x), FMax(a.y, b.y), FMax(a.z, b.z)))

merge_keeps_first_max(a, b) ==
    Aabb(Vec(FMin(a.min.x, b.min.x), FMin(a.min.y, b.min.y), FMin(a.min.z, b.min.z)), a.max)

merge(a, b) ==
    Aabb(Vec(FMin(a.min.x, b.min.x), FMin(a.min.y, b.min.y), FMin(a.min.z, b.min.z)),
         Vec(FMax(a.max.x, b.max.x), FMax(a.max.y, b.max.y), FMax(a.max.z, b.max.z)))

\* the width of the flat-primitive padding (0.0001), in the model's unit
PadDelta == 4

\* one axis of AABB::padded: an extent below delta grows by delta/2 on each side
pad_axis(lo, hi, delta) ==
    IF FLt(FSub(hi, lo), delta)
    THEN <<FSub(lo, FDiv(delta, 2)), FAdd(hi, FDiv(delta, 2))>>
    ELSE <<lo, hi>>

padded(b, delta) ==
    LET px == pad_axis(b.min.x, b.max.x, delta)
        py == pad_axis(b.min.y, b.max.y, delta)
        pz == pad_axis(b.min.z, b.max.z, delta)
    IN  Aabb(Vec(px[1], py[1], pz[1]), Vec(px[2], py[2], pz[2]))

\* (min + max) / 2 on every axis
centroid(b) ==
    Vec(FDiv(FAdd(b.min.x, b.max.x), 2),
        FDiv(FAdd(b.min.y, b.max.y), 2),
        FDiv(FAdd(b.min.z, b.max.z), 2))

\* max - min on every axis
dimensions(b) == vsub(b.max, b.min)

\* <[f64]>::contains: some element is == x (so never true of NaN)
slice_contains(s, x) == \E i \in 1..Len(s) : FEq(s[i], x)

fold_max(s, init) == FMax(FMax(FMax(init, s[1]), s[2]), s[3])
fold_min(s, init) == FMin(FMin(FMin(init, s[1]), s[2]), s[3])

aabb_hit(b, r, iv) ==
    LET overlap(lowers, uppers) ==
            IF slice_contains(lowers, NaN) \/ slice_contains(uppers, NaN)
            THEN FALSE
            ELSE \* lowers_max < uppers_min
                 FLt(fold_max([i \in 1..3 |-> interval_clamp(iv, lowers[i])], NaN),
                     fold_min([i \in 1..3 |-> interval_clamp(iv, uppers[i])], NaN))
        slabs(t_0, t_1) ==
            overlap(<<FMin(t_0.x, t_1.x), FMin(t_0.y, t_1.y), FMin(t_0.z, t_1.z)>>,
                    <<FMax(t_0.x, t_1.x), FMax(t_0.y, t_1.y), FMax(t_0.z, t_1.z)>>)
    IN  slabs(vdiv(vsub(b.min, r.origin), r.direction),
              vdiv(vsub(b.max, r.origin), r.direction))

\* p lies in the closed box b
aabb_holds(b, p) ==
    /\ FLe(b.min.x, p.x) /\ FLe(p.x, b.max.x)
    /\ FLe(b.min.y, p.y) /\ FLe(p.y, b.max.y)
    /\ FLe(b.min.z, p.z) /\ FLe(p.z, b.max.z)

----------------------------------------------------------------------------
(* Geometry.  A Quadrilateral or Triangle keeps q, u, v; the stored norm, d *)
(* and w are n/|n|, dot(n,q)/|n| and n/dot(n,n) for n = cross(u,v), and the *)
(* model computes with n and dot(n,n), where |n| cancels.  Hit keeps t, p   *)
(* and front_face.                                                          *)

Sphere(center, radius) ==
    [kind |-> "Sphere", q |-> center, radius |-> radius, u |-> ZERO, v |-> ZERO]
Quadrilateral(q, u, v) ==
    [kind |-> "Quadrilateral", q |-> q, radius |-> 0, u |-> u, v |-> v]
Triangle(q, u, v) ==
    [kind |-> "Triangle", q |-> q, radius |-> 0, u |-> u, v |-> v]

Ok(g) == [tag |-> "Ok", geometry |-> g, radius |-> g.radius]
Err(radius) == [tag |-> "Err", geometry |-> Sphere(ZERO, 0), radius |-> radius]

geometry_sphere_zero_rejected(center, radius) ==
    IF FLe(radius, 0) THEN Err(radius) ELSE Ok(Sphere(center, radius))

geometry_sphere(center, radius) ==
    IF FLt(radius, 0) THEN Err(radius) ELSE Ok(Sphere(center, radius))

Hit(t, p, front_face) == [t |-> t, p |-> p, front_face |-> front_face]

sphere_hit(center, radius, r, iv) ==
    LET \* front_face: dot(direction, (p - center) / radius) < 0; x / 0 is NaN or infinite
        hit_at(t, p) ==
            Some(Hit(t, p, radius # 0 /\ FLt(dot(r.direction, vsub(p, center)), 0)))
        nearest(root1, root2) ==
            IF interval_surrounds(iv, root1) THEN hit_at(root1, ray_at(r, root1))
            ELSE IF interval_surrounds(iv, root2) THEN hit_at(root2, ray_at(r, root2))
            ELSE None
        roots(h, a, sqrtd) == nearest(FDiv(FSub(h, sqrtd), a), FDiv(FAdd(h, sqrtd), a))
        solve(h, a, discriminant) ==
            IF FLt(discriminant, 0) THEN None ELSE roots(h, a, FSqrt(discriminant))
        quadratic(a, h, c) == solve(h, a, FSub(FMul(h, h), FMul(a, c)))
        from(oc) == quadratic(length_squared(r.direction), dot(r.direction, oc),
                              FSub(length_squared(oc), FMul(radius, radius)))
    IN  from(vsub(center, r.origin))

sphere_bounding_box(center, radius) ==
    LET radii == Vec(radius, radius, radius)
    IN  aabb_new(vadd(center, radii), vsub(center, radii))

\* plane_intersection and uv_hit: <<t, p, alpha * dot(n,n), beta * dot(n,n), dot(n,n)>>
uv_hit(q, u, v, r, iv) ==
    LET coords(n, nn, t, p, qp) ==
            Some(<<t, p, dot(n, cross(qp, v)), dot(n, cross(u, qp)), nn>>)
        at(n, nn, t, p) == coords(n, nn, t, p, vsub(p, q))
        on_plane(n, nn, t) ==
            IF ~interval_contains(iv, t) THEN None ELSE at(n, nn, t, ray_at(r, t))
        plane_intersection(n, nn, denominator) ==
            IF nn = 0 \/ denominator = 0 THEN None
            ELSE on_plane(n, nn, FDiv(FSub(dot(n, q), dot(n, r.origin)), denominator))
        with_normal(n) == plane_intersection(n, dot(n, n), dot(n, r.direction))
    IN  with_normal(cross(u, v))

plane_front_face(u, v, r) == FLt(dot(r.direction, cross(u, v)), 0)

quad_hit(q, u, v, r, iv) ==
    LET inside(t, p, alpha, beta, nn) ==
            IF ~(0 <= alpha /\ alpha <= nn) \/ ~(0 <= beta /\ beta <= nn)
            THEN None
            ELSE Some(Hit(t, p, plane_front_face(u, v, r)))
        check(h) ==
            IF ~IsSome(h) THEN None ELSE inside(h[1][1], h[1][2], h[1][3], h[1][4], h[1][5])
    IN  check(uv_hit(q, u, v, r, iv))

quad_bounding_box(q, u, v) ==
    padded(aabb_new(q, vadd(vadd(q, u), v)), PadDelta)

triangle_hit(q, u, v, r, iv) ==
    LET inside(t, p, alpha, beta, nn) ==
            IF ~(alpha >= 0 /\ beta >= 0 /\ alpha + beta <= nn)
            THEN None
            ELSE Some(Hit(t, p, plane_front_face(u, v, r)))
        check(h) ==
            IF ~IsSome(h) THEN None ELSE inside(h[1][1], h[1][2], h[1][3], h[1][4], h[1][5])
    IN  check(uv_hit(q, u, v, r, iv))

triangle_bounding_box(q, u, v) ==
    padded(merge(aabb_new(q, vadd(q, u)), aabb_new(q, vadd(q, v))), PadDelta)

geometry_hit(g, r, iv) ==
    CASE g.kind = "Sphere" -> sphere_hit(g.q, g.radius, r, iv)
      [] g.kind = "Quadrilateral" -> quad_hit(g.q, g.u, g.v, r, iv)
      [] g.kind = "Triangle" -> triangle_hit(g.q, g.u, g.v, r, iv)

geometry_bounding_box(g) ==
    CASE g.kind = "Sphere" -> sphere_bounding_box(g.q, g.radius)
      [] g.kind = "Quadrilateral" -> quad_bounding_box(g.q, g.u, g.v)
      [] g.kind = "Triangle" -> triangle_bounding_box(g.q, g.u, g.v)

----------------------------------------------------------------------------
(* Surface: a geometry with a material; hits carry the material along *)

Surface(geometry, material) == [geometry |-> geometry, material |-> material]

\* Option<(Hit, Material)>
surface_hit(s, r, iv) ==
    LET with_material(h) == IF IsSome(h) THEN Some(<<Unwrap(h), s.material>>) ELSE None
    IN  with_material(geometry_hit(s.geometry, r, iv))

surface_bounding_box(s) == geometry_bounding_box(s.geometry)

RECURSIVE slice_hit_fold(_, _, _, _, _)
slice_hit_fold(s, i, r, iv, best) ==
    IF i > Len(s) THEN best
    ELSE LET next(maybe_hit) ==
                 CASE ~IsSome(best) /\ ~IsSome(maybe_hit) -> None
                   [] ~IsSome(best) /\ IsSome(maybe_hit) -> maybe_hit
                   [] IsSome(best) /\ ~IsSome(maybe_hit) -> best
                   [] OTHER -> IF FLt(Unwrap(maybe_hit)[1].t, Unwrap(best)[1].t)
                               THEN maybe_hit ELSE best
         IN  slice_hit_fold(s, i + 1, r, iv, next(surface_hit(s[i], r, iv)))

\* impl Hittable for &[Surface]: the linear scan
slice_hit(s, r, iv) == slice_hit_fold(s, 1, r, iv, None)

RECURSIVE slice_bounding_box_fold(_, _, _)
slice_bounding_box_fold(s, i, box) ==
    IF i > Len(s) THEN box
    ELSE slice_bounding_box_fold(s, i + 1, merge(box, surface_bounding_box(s[i])))

slice_bounding_box(s) == slice_bounding_box_fold(s, 1, EMPTY)

----------------------------------------------------------------------------
(* bvh::partition.  A partition returns the permuted group and the index   *)
(* `mid` at which split_at_mut cuts it: left = seq[1..mid], right the rest. *)
(* sort_unstable_by leaves the order of equal keys open, so an operator    *)
(* that sorts yields the set of its possible results.                      *)

ALL == <<"X", "Y", "Z">>

get_component(axis, v) ==
    CASE axis = "X" -> v.x
      [] axis = "Y" -> v.y
      [] axis = "Z" -> v.z

\* Iterator::max_by with total_cmp: of several maximal axes the last one
longest_axis(bounding_box) ==
    LET later(x, y, z) ==
            IF z >= x /\ z >= y THEN "Z" ELSE IF y >= x THEN "Y" ELSE "X"
        longest(dims) == later(dims.x, dims.y, dims.z)
    IN  longest(vsub(bounding_box.max, bounding_box.min))

Swap(s, i, j) == [s EXCEPT ![i] = s[j], ![j] = s[i]]

\* the loop of partition_in_place on the slice s whose predicate values are f;
\* the iterator still holds positions lo..hi
RECURSIVE swap_loop(_, _, _, _)
swap_loop(s, f, lo, hi) ==
    LET falses == {i \in lo..hi : ~f[i]}
    IN  IF falses = {} THEN s
        ELSE LET left == CHOOSE i \in falses : \A k \in falses : i <= k
                 trues == {j \in (left + 1)..hi : f[j]}
             IN  IF trues = {} THEN s
                 ELSE LET right == CHOOSE j \in trues : \A k \in trues : j >= k
                      IN  swap_loop(Swap(s, left, right), Swap(f, left, right),
                                    left + 1, right - 1)

\* slice::partition_point of a partitioned slice: the length of the prefix
\* on which the predicate holds
partition_point(f) ==
    LET firsts == {i \in 1..Len(f) : ~f[i]}
    IN  IF firsts = {} THEN Len(f)
        ELSE (CHOOSE i \in firsts : \A k \in firsts : i <= k) - 1

Split(seq, mid) == [panic |-> "", seq |-> seq, mid |-> mid]
Panicked(s, message) == [panic |-> message, seq |-> s, mid |-> 0]

\* comparison body for partition_in_place: no swaps
partition_in_place_no_swaps(s, f) == Split(s, partition_point(f))

\* partition_in_place(surfaces, pred), pred given by its values on surfaces
partition_in_place(s, f) ==
    Split(swap_loop(s, f, 1, Len(s)), partition_point(swap_loop(f, f, 1, Len(s))))

\* the orders sort_unstable_by may leave s in, for the keys key[i] of s[i]
SortedOrders(s, key) ==
    LET n == Len(s)
        perms == {p \in [1..n -> 1..n] : \A i, j \in 1..n : i # j => p[i] # p[j]}
        sorted == {p \in perms : \A i \in 1..(n - 1) : key[p[i]] <= key[p[i + 1]]}
    IN  {[i \in 1..n |-> s[p[i]]] : p \in sorted}

\* comparison body for longest_axis_bisect_slice: no sort
longest_axis_bisect_slice_unsorted(s) == {Split(s, Len(s) \div 2)}

longest_axis_bisect_slice(s) ==
    LET sort_along(axis) ==
            SortedOrders(s, [i \in 1..Len(s) |->
                                get_component(axis, surface_bounding_box(s[i]).min)])
    IN  {Split(t, Len(s) \div 2) : t \in sort_along(longest_axis(slice_bounding_box(s)))}

longest_axis_midpoint(s) ==
    LET below(axis, midpoint) ==
            partition_in_place(s, [i \in 1..Len(s) |->
                FLt(get_component(axis, centroid(surface_bounding_box(s[i]))), midpoint)])
        along(bounding_box, axis) ==
            below(axis, get_component(axis, centroid(bounding_box)))
        within(bounding_box) == along(bounding_box, longest_axis(bounding_box))
    IN  {within(slice_bounding_box(s))}

(* sah.  A candidate plane is <<axis, num, den>>: the intercept num/den with *)
(* den > 0 (den is the bucket count for an equal-size plane, 1 otherwise).   *)
(* A cost is <<num, den>> with den the parent's surface-area factor.         *)

surface_area_factor(bounding_box) ==
    LET factor(dims) ==
            FAdd(FAdd(FMul(dims.x, dims.y), FMul(dims.x, dims.z)), FMul(dims.y, dims.z))
    IN  factor(dimensions(bounding_box))

ROOT_TEST_COST == 1

\* ROOT_TEST_COST + p_left * n_left + p_right * n_right over the common
\* denominator parent_saf
surface_area_heuristic(left, n_left, right, n_right, bounding_box) ==
    LET cost(parent_saf) ==
            <<FAdd(FAdd(FMul(ROOT_TEST_COST, parent_saf),
                        FMul(surface_area_factor(left), n_left)),
                   FMul(surface_area_factor(right), n_right)),
              parent_saf>>
    IN  cost(surface_area_factor(bounding_box))

\* a.total_cmp(b) is Less, for two costs over positive denominators
CostLess(a, b) == a[1] * b[2] < b[1] * a[2]

\* acc_forward after each box of the sequence
RECURSIVE bounding_boxes_prefix_list(_)
bounding_boxes_prefix_list(boxes) ==
    IF Len(boxes) = 0 THEN <<>>
    ELSE LET push(init) ==
                 \* acc_forward is EMPTY before the first box
                 Append(init, merge(IF Len(init) = 0 THEN EMPTY ELSE init[Len(init)],
                                    boxes[Len(boxes)]))
         IN  push(bounding_boxes_prefix_list(SubSeq(boxes, 1, Len(boxes) - 1)))

Reverse(s) == [i \in 1..Len(s) |-> s[Len(s) + 1 - i]]

SplitVolumes(left, right, split_at) == [left |-> left, right |-> right, split_at |-> split_at]

\* the cache built from one sorted order of the boxes
splits_of(sorted_boxes, axis) ==
    LET zip(forward_pf, backward_pf) ==
            <<SplitVolumes(EMPTY, EMPTY, NInf)>>
            \o [i \in 1..Len(sorted_boxes) |->
                   SplitVolumes(forward_pf[i], backward_pf[i],
                                get_component(axis, centroid(sorted_boxes[i])))]
            \o <<SplitVolumes(EMPTY, EMPTY, PInf)>>
    IN  zip(bounding_boxes_prefix_list(sorted_boxes),
            Reverse(bounding_boxes_prefix_list(Reverse(sorted_boxes))))

splits_cache(s, axis) ==
    LET sorted(boxes) ==
            SortedOrders(boxes, [i \in 1..Len(s) |-> get_component(axis, centroid(boxes[i]))])
    IN  {splits_of(sorted_boxes, axis) :
            sorted_boxes \in sorted([i \in 1..Len(s) |-> surface_bounding_box(s[i])])}

\* x < num/den for den > 0
BelowPlane(x, num, den) == FLt(FMul(x, den), num)

aabb_eq(a, b) ==
    /\ FEq(a.min.x, b.min.x) /\ FEq(a.min.y, b.min.y) /\ FEq(a.min.z, b.min.z)
    /\ FEq(a.max.x, b.max.x) /\ FEq(a.max.y, b.max.y) /\ FEq(a.max.z, b.max.z)

\* the closure split_at of partition_impl: the index n_left into the cache
split_index(splits, num, den) ==
    partition_point([i \in 1..Len(splits) |-> BelowPlane(splits[i].split_at, num, den)]) - 1

\* the filter_map of partition_impl on one plane: None, or Some(<<plane, cost>>)
candidate(plane, caches, bounding_box, n_surfaces) ==
    LET costed(n_left, sv) ==
            IF aabb_eq(sv.left, EMPTY) \/ aabb_eq(sv.right, EMPTY) THEN None
            ELSE Some(<<plane, surface_area_heuristic(sv.left, n_left, sv.right,
                                                      n_surfaces - n_left, bounding_box)>>)
        split_at(splits, n_left) == costed(n_left, splits[n_left + 1])
        on_axis(splits) == split_at(splits, split_index(splits, plane[2], plane[3]))
    IN  on_axis(caches[plane[1]])

\* Iterator::min_by: of several minimal candidates the first one
RECURSIVE min_by(_, _, _)
min_by(cands, i, best) ==
    IF i > Len(cands) THEN best
    ELSE IF ~IsSome(cands[i]) THEN min_by(cands, i + 1, best)
    ELSE IF ~IsSome(best) THEN min_by(cands, i + 1, cands[i])
    ELSE IF CostLess(Unwrap(cands[i])[2], Unwrap(best)[2]) THEN min_by(cands, i + 1, cands[i])
    ELSE min_by(cands, i + 1, best)

\* partition_impl for one choice of the three caches
partition_with(s, splitting_planes, caches) ==
    LET below(plane) ==
            partition_in_place(s, [i \in 1..Len(s) |->
                BelowPlane(get_component(plane[1], centroid(surface_bounding_box(s[i]))),
                           plane[2], plane[3])])
        cut(minimum) ==
            IF ~IsSome(minimum) THEN Panicked(s, "No valid splitting plane")
            ELSE below(Unwrap(minimum)[1])
        best(bounding_box) ==
            cut(min_by([i \in 1..Len(splitting_planes) |->
                           candidate(splitting_planes[i], caches, bounding_box, Len(s))],
                       1, None))
    IN  IF \E i \in 1..Len(splitting_planes) :
               split_index(caches[splitting_planes[i][1]],
                           splitting_planes[i][2], splitting_planes[i][3]) < 0
        THEN Panicked(s, "attempt to subtract with overflow")
        ELSE best(slice_bounding_box(s))

partition_impl(s, splitting_planes) ==
    {partition_with(s, splitting_planes, [X |-> x_splits, Y |-> y_splits, Z |-> z_splits]) :
        x_splits \in splits_cache(s, "X"),
        y_splits \in splits_cache(s, "Y"),
        z_splits \in splits_cache(s, "Z")}

Flatten3(f, n) == [k \in 1..(3 * n) |-> f[((k - 1) \div 3) + 1][((k - 1) % 3) + 1]]

\* sah::equal_size::partition: per axis, the planes start + i * (dims / buckets)
equal_size_planes(s, buckets) ==
    LET planes_of(axis, start, dims) ==
            [i \in 1..(buckets - 1) |->
                <<axis, FAdd(FMul(get_component(axis, start), buckets),
                             FMul(i, get_component(axis, dims))), buckets>>]
        planes(start, dims) ==
            planes_of("X", start, dims) \o planes_of("Y", start, dims)
            \o planes_of("Z", start, dims)
        within(bounding_box) == planes(bounding_box.min, dimensions(bounding_box))
    IN  within(slice_bounding_box(s))

equal_size_partition(s, buckets) == partition_impl(s, equal_size_planes(s, buckets))

\* sah::per_surface::partition: per surface, its centroid on every axis
per_surface_planes(s) ==
    Flatten3([i \in 1..Len(s) |->
                 [a \in 1..3 |->
                     <<ALL[a], get_component(ALL[a], centroid(surface_bounding_box(s[i]))), 1>>]],
             Len(s))

per_surface_partition(s) == partition_impl(s, per_surface_planes(s))

(* PartitionBy *)
LongestAxisBisectSlice == [kind |-> "LongestAxisBisectSlice", buckets |-> 0]
LongestAxisMidpoint == [kind |-> "LongestAxisMidpoint", buckets |-> 0]
EqualSize(buckets) == [kind |-> "EqualSize", buckets |-> buckets]
PerSurface == [kind |-> "PerSurface", buckets |-> 0]

partition(by, s) ==
    CASE by.kind = "LongestAxisBisectSlice" -> longest_axis_bisect_slice(s)
      [] by.kind = "LongestAxisMidpoint" -> longest_axis_midpoint(s)
      [] by.kind = "EqualSize" -> equal_size_partition(s, by.buckets)
      [] by.kind = "PerSurface" -> per_surface_partition(s)

----------------------------------------------------------------------------
(* bvh: Node, BVH::from_slice, build_tree_rec.  Node indices are 0-based as *)
(* in the source; node(i) reads partial_nodes[i].                           *)

NoSurface == Surface(Sphere(ZERO, 0), "none")
Placeholder ==
    [kind |-> "Placeholder", right_idx |-> None, bounding_box |-> EMPTY, surface |-> NoSurface]
Internal(right_idx, bounding_box) ==
    [kind |-> "Internal", right_idx |-> right_idx, bounding_box |-> bounding_box,
     surface |-> NoSurface]
Leaf(surface) ==
    [kind |-> "Leaf", right_idx |-> None, bounding_box |-> EMPTY, surface |-> surface]

\* Node::bounding_box; a Placeholder has none (unreachable!)
node_bounding_box(n) ==
    CASE n.kind = "Internal" -> n.bounding_box
      [] n.kind = "Leaf" -> surface_bounding_box(n.surface)

node(nodes, i) == nodes[i + 1]
InBounds(nodes, i) == 0 <= i /\ i < Len(nodes)

\* a call of build_tree_rec on surfaces[lo..hi) (0-based, as a Rust range);
\* pc is where the call resumes, mid the cut between left and right
Frame(lo, hi, pc, parent_idx, mid, right_idx) ==
    [lo |-> lo, hi |-> hi, pc |-> pc, parent_idx |-> parent_idx, mid |-> mid,
     right_idx |-> right_idx]
Call(lo, hi) == Frame(lo, hi, "start", 0, 0, 0)

Top == frames[Len(frames)]
Group(f) == SubSeq(surfaces, f.lo + 1, f.hi)
Replace(f, seq) ==
    [i \in 1..Len(surfaces) |->
        IF f.lo < i /\ i <= f.hi THEN seq[i - f.lo] ELSE surfaces[i]]
Return == SubSeq(frames, 1, Len(frames) - 1)
Resume(pc, parent_idx, mid, right_idx) ==
    [frames EXCEPT ![Len(frames)] = Frame(Top.lo, Top.hi, pc, parent_idx, mid, right_idx)]

pair_nodes_right_is_left(len, left, right) ==
    <<Internal(Some(len + 1), merge(surface_bounding_box(left), surface_bounding_box(right))),
      Leaf(left), Leaf(right)>>

\* comparison body for pair_nodes: the left surface in both leaves
pair_nodes_left_twice(len, left, right) ==
    <<Internal(Some(len + 2), merge(surface_bounding_box(left), surface_bounding_box(right))),
      Leaf(left), Leaf(left)>>

\* the three nodes of the 2-surface case, pushed at index len
pair_nodes(len, left, right) ==
    <<Internal(Some(len + 2), merge(surface_bounding_box(left), surface_bounding_box(right))),
      Leaf(left), Leaf(right)>>

left_child_is_parent(parent_idx) == parent_idx

\* the index of the root of the left subtree of the node at parent_idx
left_child(parent_idx) == parent_idx + 1

patch_appends(nodes, parent_idx, right_idx) ==
    Append(nodes, Internal(Some(right_idx),
                           merge(node_bounding_box(node(nodes, left_child(parent_idx))),
                                 node_bounding_box(node(nodes, right_idx)))))

patch_left_box_only(nodes, parent_idx, right_idx) ==
    [nodes EXCEPT ![parent_idx + 1] =
        Internal(Some(right_idx), node_bounding_box(node(nodes, left_child(parent_idx))))]

\* partial_nodes[parent_idx] = Node::Internal(Some(right_idx), merge(..))
patch(nodes, parent_idx, right_idx) ==
    [nodes EXCEPT ![parent_idx + 1] =
        Internal(Some(right_idx),
                 merge(node_bounding_box(node(nodes, left_child(parent_idx))),
                       node_bounding_box(node(nodes, right_idx))))]

----------------------------------------------------------------------------
(* The inputs of a build and of a query *)

\* the longest surface slice given to from_slice
MaxSurfaces == 3
\* the largest bucket count of SAHBucketStrategy::EqualSize
MaxBuckets == 4
\* the recursion depth at which build_tree_rec exhausts the thread's stack;
\* a build that splits every group into two non-empty parts stays well below it
StackLimit == MaxSurfaces + MaxSurfaces

SmallLeft == Surface(Sphere(Vec(0 - 12, 0, 0), 4), "Lambertian")
SmallLeftTwin == Surface(Sphere(Vec(0 - 12, 0, 0), 4), "Metal")
LargeRight == Surface(Sphere(Vec(12, 0, 0), 8), "Lambertian")
SmallUp == Surface(Sphere(Vec(0 - 12, 12, 0), 4), "Dielectric")
Diamond ==
    Surface(Quadrilateral(Vec(0 - 8, 0, 0), Vec(8, 8, 0), Vec(8, 0 - 8, 0)), "DiffuseLight")

Catalogue == {SmallLeft, SmallLeftTwin, LargeRight, SmallUp, Diamond}

Slices == UNION {[1..n -> Catalogue] : n \in 0..MaxSurfaces}

Strategies ==
    {LongestAxisBisectSlice, LongestAxisMidpoint, PerSurface}
    \cup {EqualSize(b) : b \in 1..MaxBuckets}

Rays ==
    {Ray(Vec(0 - 24, 0, 0), Vec(1, 0, 0)),
     Ray(Vec(24, 0, 0), Vec(0 - 1, 0, 0)),
     Ray(Vec(0 - 16, 0, 12), Vec(0, 0, 0 - 1)),
     Ray(Vec(0, 4, 12), Vec(0, 0, 0 - 1)),
     Ray(Vec(0, 0, 12), Vec(0, 0, 0 - 1))}

Intervals == {Interval(0, PInf), Interval(2, 12)}

NoStrategy == [kind |-> "none", buckets |-> 0]
NoPartition == [by |-> NoStrategy, group |-> <<>>, result |-> Split(<<>>, 0)]

Init ==
    /\ input = <<>> /\ partition_by = NoStrategy /\ surfaces = <<>>
    /\ partial_nodes = <<>> /\ frames = <<>> /\ status = "idle"
    /\ parted = NoPartition
    /\ ray = Ray(ZERO, ZERO) /\ ray_t = Interval(0, 0) /\ stack = <<>>
    /\ acc = None /\ shrunken_ray_t = Interval(0, 0) /\ hpc = "idle"
    /\ placeholder_seen = FALSE
    /\ geo = [op |-> "none"]
    /\ trace = [pc |-> "idle"]
    /\ render = [pc |-> "idle"]

----------------------------------------------------------------------------
(* Construction *)

\* BVH::from_slice(surfaces, partition_by), up to its call of build_tree_rec
FromSlice ==
    \E s \in Slices, by \in Strategies :
        /\ status = "idle"
        /\ input' = s /\ surfaces' = s /\ partition_by' = by
        /\ partial_nodes' = <<>>
        /\ IF Len(s) = 0
           THEN frames' = <<>> /\ status' = "built"
           ELSE frames' = <<Call(0, Len(s))>> /\ status' = "building"
        /\ UNCHANGED <<parted, hitVars, placeholder_seen, geo, camVars>>

\* the return of a call: the caller resumes, or from_slice returns the tree
Returned(nodes) ==
    /\ partial_nodes' = nodes
    /\ frames' = Return
    /\ status' = IF Len(frames) = 1 THEN "built" ELSE "building"

\* build_tree_rec, surfaces.len() == 1
BuildLeaf ==
    /\ status = "building" /\ Top.pc = "start" /\ Top.hi - Top.lo = 1
    /\ Returned(Append(partial_nodes, Leaf(Group(Top)[1])))
    /\ UNCHANGED <<input, partition_by, surfaces, parted, hitVars, placeholder_seen, geo, camVars>>

\* build_tree_rec, surfaces.len() == 2
BuildPair ==
    /\ status = "building" /\ Top.pc = "start" /\ Top.hi - Top.lo = 2
    /\ \E o \in partition(partition_by, Group(Top)) :
        /\ parted' = [by |-> partition_by, group |-> Group(Top), result |-> o]
        /\ IF o.panic # ""
           THEN /\ status' = o.panic
                /\ UNCHANGED <<surfaces, partial_nodes, frames>>
           ELSE /\ surfaces' = Replace(Top, o.seq)
                /\ IF o.mid = 0 \/ o.mid = 2
                   THEN \* left_singleton[0] or right_singleton[0] of an empty slice
                        /\ status' = "index out of bounds"
                        /\ UNCHANGED <<partial_nodes, frames>>
                   ELSE Returned(partial_nodes
                                 \o pair_nodes(Len(partial_nodes), o.seq[1], o.seq[2]))
    /\ UNCHANGED <<input, partition_by, hitVars, placeholder_seen, geo, camVars>>

\* build_tree_rec, any other length: partition, push the Placeholder, recurse left
BuildSplit ==
    /\ status = "building" /\ Top.pc = "start" /\ Top.hi - Top.lo \notin {1, 2}
    /\ \E o \in partition(partition_by, Group(Top)) :
        /\ parted' = [by |-> partition_by, group |-> Group(Top), result |-> o]
        /\ IF o.panic # ""
           THEN /\ status' = o.panic
                /\ UNCHANGED <<surfaces, partial_nodes, frames>>
           ELSE /\ surfaces' = Replace(Top, o.seq)
                /\ partial_nodes' = Append(partial_nodes, Placeholder)
                /\ IF Len(frames) >= StackLimit
                   THEN status' = "stack overflow" /\ UNCHANGED frames
                   ELSE /\ status' = "building"
                        /\ frames' = Append(Resume("left_built", Len(partial_nodes),
                                                   Top.lo + o.mid, 0),
                                            Call(Top.lo, Top.lo + o.mid))
    /\ UNCHANGED <<input, partition_by, hitVars, placeholder_seen, geo, camVars>>

\* after the left recursion: right_idx = partial_nodes.len(), recurse right
BuildRight ==
    /\ status = "building" /\ Top.pc = "left_built"
    /\ IF Len(frames) >= StackLimit
       THEN status' = "stack overflow" /\ UNCHANGED frames
       ELSE /\ status' = "building"
            /\ frames' = Append(Resume("right_built", Top.parent_idx, Top.mid,
                                       Len(partial_nodes)),
                                Call(Top.mid, Top.hi))
    /\ UNCHANGED <<input, partition_by, surfaces, partial_nodes, parted, hitVars,
                   placeholder_seen, geo, camVars>>

\* after the right recursion: overwrite the Placeholder with the Internal node
BuildPatch ==
    /\ status = "building" /\ Top.pc = "right_built"
    /\ LET l == left_child(Top.parent_idx)
           r == Top.right_idx
       IN  IF ~InBounds(partial_nodes, l)
           THEN /\ status' = "index out of bounds"
                /\ UNCHANGED <<partial_nodes, frames, placeholder_seen>>
           ELSE IF node(partial_nodes, l).kind = "Placeholder"
           THEN /\ status' = "unreachable"
                /\ placeholder_seen' = TRUE
                /\ UNCHANGED <<partial_nodes, frames>>
           ELSE IF ~InBounds(partial_nodes, r)
           THEN /\ status' = "index out of bounds"
                /\ UNCHANGED <<partial_nodes, frames, placeholder_seen>>
           ELSE IF node(partial_nodes, r).kind = "Placeholder"
           THEN /\ status' = "unreachable"
                /\ placeholder_seen' = TRUE
                /\ UNCHANGED <<partial_nodes, frames>>
           ELSE /\ Returned(patch(partial_nodes, Top.parent_idx, r))
                /\ UNCHANGED placeholder_seen
    /\ UNCHANGED <<input, partition_by, surfaces, parted, hitVars, geo, camVars>>

----------------------------------------------------------------------------
(* BVH::hit: one action per turn of `while let Some(i) = stack.pop()` *)

Pop(st) == SubSeq(st, 1, Len(st) - 1)

\* comparison body for push_children: the right child in place of the left
push_children_right_twice(st, i, maybe_right_idx, len) ==
    LET with_right == IF IsSome(maybe_right_idx)
                      THEN Append(st, Unwrap(maybe_right_idx)) ELSE st
    IN  IF i + 1 < len /\ IsSome(maybe_right_idx)
        THEN Append(with_right, Unwrap(maybe_right_idx)) ELSE with_right

\* the Internal arm: push the right child, then the left child i + 1
push_children(st, i, maybe_right_idx, len) ==
    LET with_right == IF IsSome(maybe_right_idx)
                      THEN Append(st, Unwrap(maybe_right_idx)) ELSE st
    IN  IF i + 1 < len THEN Append(with_right, i + 1) ELSE with_right

\* comparison body for take_hit: the interval is left as it was
take_hit_keeps_interval(best, shrunken, found) ==
    IF ~IsSome(found) \/ (IsSome(best) /\ FLt(Unwrap(best)[1].t, Unwrap(found)[1].t))
    THEN <<best, shrunken>>
    ELSE <<found, shrunken>>

\* the Leaf arm, for what surface.hit found: <<acc, shrunken_ray_t>> afterwards
take_hit(best, shrunken, found) ==
    IF ~IsSome(found) \/ (IsSome(best) /\ FLt(Unwrap(best)[1].t, Unwrap(found)[1].t))
    THEN <<best, shrunken>>
    ELSE <<found, [shrunken EXCEPT !.max = Unwrap(found)[1].t]>>

HitStart ==
    \E r \in Rays, iv \in Intervals :
        /\ status = "built" /\ hpc = "idle"
        /\ ray' = r /\ ray_t' = iv
        /\ stack' = <<0>> /\ acc' = None /\ shrunken_ray_t' = iv
        /\ hpc' = "loop"
        /\ UNCHANGED <<bvhVars, placeholder_seen, geo, camVars>>

HitStep ==
    /\ hpc = "loop" /\ stack # <<>>
    /\ LET i == stack[Len(stack)]
           rest == Pop(stack)
       IN  IF ~InBounds(partial_nodes, i)
           THEN /\ hpc' = "index out of bounds"
                /\ stack' = rest
                /\ UNCHANGED <<acc, shrunken_ray_t, placeholder_seen>>
           ELSE LET curr == node(partial_nodes, i)
                IN  IF curr.kind = "Placeholder"
                    THEN /\ hpc' = "unreachable"
                         /\ placeholder_seen' = TRUE
                         /\ stack' = rest
                         /\ UNCHANGED <<acc, shrunken_ray_t>>
                    ELSE IF ~aabb_hit(node_bounding_box(curr), ray, shrunken_ray_t)
                    THEN /\ stack' = rest
                         /\ UNCHANGED <<acc, shrunken_ray_t, hpc, placeholder_seen>>
                    ELSE IF curr.kind = "Internal"
                    THEN /\ stack' = push_children(rest, i, curr.right_idx, Len(partial_nodes))
                         /\ UNCHANGED <<acc, shrunken_ray_t, hpc, placeholder_seen>>
                    ELSE LET keep(taken) == acc' = taken[1] /\ shrunken_ray_t' = taken[2]
                         IN  /\ stack' = rest
                             /\ keep(take_hit(acc, shrunken_ray_t,
                                              surface_hit(curr.surface, ray, shrunken_ray_t)))
                             /\ UNCHANGED <<hpc, placeholder_seen>>
    /\ UNCHANGED <<bvhVars, ray, ray_t, geo, camVars>>

\* the stack is empty: hit returns acc
HitReturn ==
    /\ hpc = "loop" /\ stack = <<>>
    /\ hpc' = "returned"
    /\ UNCHANGED <<bvhVars, ray, ray_t, stack, acc, shrunken_ray_t, placeholder_seen, geo, camVars>>

\* BVH::bounding_box
bvh_bounding_box(tree) == IF Len(tree) = 0 THEN EMPTY ELSE node_bounding_box(node(tree, 0))

Next ==
    \/ FromSlice
    \/ BuildLeaf
    \/ BuildPair
    \/ BuildSplit
    \/ BuildRight
    \/ BuildPatch
    \/ HitStart
    \/ HitStep
    \/ HitReturn

Spec == Init /\ [][Next]_vars

----------------------------------------------------------------------------
(* Properties of the BVH: construction and the nearest-hit query *)

SAH == {"EqualSize", "PerSurface"}

\* C1: whenever BVH.hit has returned, its result is the result of the linear
\* scan of the caller's slice for the same ray and interval: both nothing, or
\* the same hit (same t, same point) on the same surface (same material).
C1_HitMatchesLinearScan ==
    hpc = "returned" => acc = slice_hit(input, ray, ray_t)

\* C2: once from_slice has returned a BVH, of the empty collection too, a
\* query never fails: it is idle, running, or has returned.
C2_HitIsTotal ==
    status = "built" => hpc \in {"idle", "loop", "returned"}

\* C4: the tree from_slice returns over N surfaces has 2N-1 nodes for N >= 2,
\* one node for N = 1 and none for N = 0.
C4_NodeCount ==
    status = "built" =>
        Len(partial_nodes) = (IF Len(input) = 0 THEN 0
                              ELSE IF Len(input) = 1 THEN 1
                              ELSE 2 * Len(input) - 1)

C4_Witness ==
    /\ status = "built" /\ Len(input) = 3 /\ Len(partial_nodes) = 5
    /\ partition_by.kind = "PerSurface"

\* C5: the bounding box of the root of a tree built from a non-empty slice is
\* the merge of the bounding boxes of the tree's leaves, which is the bounding
\* box of the input slice.
C5_RootBoxIsMergeOfLeaves ==
    (status = "built" /\ Len(input) > 0) =>
        LET RECURSIVE leaves_box(_)
            leaves_box(i) ==
                IF i > Len(partial_nodes) THEN EMPTY
                ELSE IF partial_nodes[i].kind = "Leaf"
                THEN merge(surface_bounding_box(partial_nodes[i].surface), leaves_box(i + 1))
                ELSE leaves_box(i + 1)
        IN  /\ bvh_bounding_box(partial_nodes) = leaves_box(1)
            /\ bvh_bounding_box(partial_nodes) = slice_bounding_box(input)

C5_Witness ==
    /\ status = "built" /\ Len(input) = 3
    /\ partial_nodes[1].kind = "Internal"
    /\ partial_nodes[1].bounding_box = slice_bounding_box(<<SmallLeft, LargeRight, SmallUp>>)
    /\ partial_nodes[1].bounding_box # surface_bounding_box(partial_nodes[2].surface)

\* C6: no Placeholder is ever handed to Node::bounding_box or matched by
\* BVH.hit, during construction or afterwards, and the tree from_slice
\* returns holds none.
C6_NoPlaceholderObserved ==
    /\ ~placeholder_seen
    /\ status # "unreachable" /\ hpc # "unreachable"
    /\ status = "built" =>
          \A i \in 1..Len(partial_nodes) : partial_nodes[i].kind # "Placeholder"

C6_Witness ==
    /\ status = "built" /\ hpc = "returned" /\ ~placeholder_seen
    /\ Len(input) = 3 /\ Len(partial_nodes) = 5
    /\ partial_nodes[1].kind = "Internal"

\* C7: a build with the longest-axis-midpoint strategy over 3 or more surfaces
\* never fails: it is under way or has returned the tree (coincident centroids
\* included).
C7_MidpointBuildTerminates ==
    (partition_by.kind = "LongestAxisMidpoint" /\ Len(input) >= 3) =>
        status \in {"building", "built"}

\* C8: the split an SAH partition (equal-size with any bucket count, or
\* per-surface) returns for a group of 2 or more surfaces has a non-empty left
\* part and a non-empty right part.
C8_SahSplitNonEmpty ==
    (parted.by.kind \in SAH /\ Len(parted.group) >= 2 /\ parted.result.panic = "") =>
        (0 < parted.result.mid /\ parted.result.mid < Len(parted.group))

\* C9: when every candidate plane of an SAH partition leaves all the surfaces
\* of the group on one side, the partition ends in the "No valid splitting
\* plane" failure and returns no split.
C9_NoValidPlaneAborts ==
    LET group == parted.group
        planes == IF parted.by.kind = "EqualSize"
                  THEN equal_size_planes(group, parted.by.buckets)
                  ELSE per_surface_planes(group)
        n_below(plane) ==
            Cardinality({i \in 1..Len(group) :
                BelowPlane(get_component(plane[1], centroid(surface_bounding_box(group[i]))),
                           plane[2], plane[3])})
    IN  (/\ parted.by.kind \in SAH
         /\ \A k \in 1..Len(planes) : n_below(planes[k]) \in {0, Len(group)})
        => parted.result.panic = "No valid splitting plane"

\* C18: build_tree_rec on a group of exactly 2 surfaces gets two 1-element
\* groups from the partition, whatever the strategy, and appends exactly three
\* nodes: Internal(own index + 2, merge of both boxes), Leaf(left), Leaf(right).
C18_PairAppendsThreeNodes ==
    [][BuildPair =>
          /\ parted'.result.panic = "" /\ parted'.result.mid = 1
          /\ partial_nodes' =
                partial_nodes
                \o <<Internal(Some(Len(partial_nodes) + 2),
                              merge(surface_bounding_box(parted'.result.seq[1]),
                                    surface_bounding_box(parted'.result.seq[2]))),
                     Leaf(parted'.result.seq[1]), Leaf(parted'.result.seq[2])>>]_vars

C20_SahSelectsMinimalCost ==
    LET group == parted.group
        n == Len(group)
        planes == IF parted.by.kind = "EqualSize"
                  THEN equal_size_planes(group, parted.by.buckets)
                  ELSE per_surface_planes(group)
        below(plane, i) ==
            BelowPlane(get_component(plane[1], centroid(surface_bounding_box(group[i]))),
                       plane[2], plane[3])
        side(plane, b) == SelectSeq([i \in 1..n |-> <<group[i], below(plane, i)>>],
                                    LAMBDA e : e[2] = b)
        boxes(es) == slice_bounding_box([i \in 1..Len(es) |-> es[i][1]])
        cost_of(plane) ==
            surface_area_heuristic(boxes(side(plane, TRUE)), Len(side(plane, TRUE)),
                                   boxes(side(plane, FALSE)), Len(side(plane, FALSE)),
                                   slice_bounding_box(group))
        returned ==
            surface_area_heuristic(
                slice_bounding_box(SubSeq(parted.result.seq, 1, parted.result.mid)),
                parted.result.mid,
                slice_bounding_box(SubSeq(parted.result.seq, parted.result.mid + 1, n)),
                n - parted.result.mid,
                slice_bounding_box(group))
    IN  (/\ parted.by.kind \in SAH /\ parted.result.panic = ""
         /\ 0 < parted.result.mid /\ parted.result.mid < n)
        => \A k \in 1..Len(planes) :
               (Len(side(planes[k], TRUE)) \in 1..(n - 1))
               => ~CostLess(cost_of(planes[k]), returned)

----------------------------------------------------------------------------
(* Direct geometry operations: the constructor of a sphere, and one hit    *)
(* query of one geometry together with its bounding box.  They are pure    *)
(* functions, so a behaviour performs one of them on one input.            *)

\* the largest coordinate of a directly queried geometry, in steps of 2 units
GeoReach == 2

Evens(k) == {2 * i : i \in (0 - k)..k}

GeoRadii == {NInf, 0 - 2, 0, 2, PInf, NaN}
GeoCenters == {Vec(x, 0, 0) : x \in Evens(1)}

InPlane == {Vec(2 * a, 2 * b, 0) : a \in Evens(1), b \in Evens(1)} \ {ZERO}

GeoGeometries ==
    {geometry_sphere(c, r).geometry : c \in GeoCenters, r \in {0, 2}}
    \cup {Quadrilateral(ZERO, u, v) : u \in InPlane, v \in InPlane}
    \cup {Triangle(ZERO, u, v) : u \in InPlane, v \in InPlane}

GeoRays ==
    {Ray(Vec(x, y, 6), Vec(0, 0, 0 - 1)) : x \in Evens(GeoReach), y \in Evens(GeoReach)}
    \cup {Ray(Vec(x, y, 0 - 6), Vec(0, 0, 1)) : x \in Evens(GeoReach), y \in {0, 2}}
    \cup {Ray(Vec(0 - 6, y, 0), Vec(1, 0, 0)) : y \in {0, 2}}

GeoIntervals == {Interval(0, PInf), Interval(1, 6)}

\* Geometry::sphere(center, radius)
SphereNew ==
    \E center \in GeoCenters, radius \in GeoRadii :
        /\ geo.op = "none"
        /\ geo' = [op |-> "sphere", center |-> center, radius |-> radius,
                   result |-> geometry_sphere(center, radius)]
        /\ UNCHANGED <<bvhVars, hitVars, placeholder_seen, camVars>>

\* g.hit(ray, ray_t) and g.bounding_box()
GeoHit ==
    \E g \in GeoGeometries, r \in GeoRays, iv \in GeoIntervals :
        /\ geo.op = "none"
        /\ geo' = [op |-> "hit", geometry |-> g, ray |-> r, ray_t |-> iv,
                   hit |-> geometry_hit(g, r, iv),
                   box |-> geometry_bounding_box(g)]
        /\ UNCHANGED <<bvhVars, hitVars, placeholder_seen, camVars>>

\* the bounds of a box handed to AABB::merge, along x; y and z are fixed
GeoBounds == {NInf, 0 - 4, 4, PInf, NaN}
GeoBoxes ==
    {Aabb(Vec(lo, 0, 0), Vec(hi, 4, 0)) : lo \in GeoBounds, hi \in GeoBounds} \cup {EMPTY}

\* AABB::merge, applied to three boxes in both orders and groupings
MergeBoxes ==
    \E a \in GeoBoxes, b \in GeoBoxes, c \in GeoBoxes :
        /\ geo.op = "none"
        /\ geo' = [op |-> "merge", a |-> a, b |-> b, c |-> c,
                   ab |-> merge(a, b), ba |-> merge(b, a),
                   ab_c |-> merge(merge(a, b), c), a_bc |-> merge(a, merge(b, c)),
                   a_e |-> merge(a, EMPTY), e_a |-> merge(EMPTY, a)]
        /\ UNCHANGED <<bvhVars, hitVars, placeholder_seen, camVars>>

----------------------------------------------------------------------------
(* Material: dielectric::scatter.  A unit vector is modelled by an integer  *)
(* vector of length UnitScale (so cos_theta and sin_theta are counted in    *)
(* units of 1/UnitScale); a face normal is an axis direction of length 1.   *)
(* eta_in_over_eta_out, a reflectance and a random draw are fractions       *)
(* <<numerator, denominator>> with a positive denominator.                  *)

UnitScale == 5

\* Vector3::to_unit: self / self.length()
to_unit(v) ==
    LET over(len) == Vec(ExactQuot(v.x * UnitScale, len), ExactQuot(v.y * UnitScale, len),
                         ExactQuot(v.z * UnitScale, len))
    IN  over(FSqrt(length_squared(v)))

\* v - 2.0 * dot(v, n) * n
reflect(v, n) == vsub(v, vscale(n, 2 * dot(v, n)))

\* f64::clamp(-1.0, 1.0) of a cosine
clamp_unit(c) ==
    IF c < 0 - UnitScale THEN 0 - UnitScale ELSE IF c > UnitScale THEN UnitScale ELSE c

refract(r_in, n, eta_in_over_eta_out) ==
    LET sum(r_out_perp) ==
            \* r_out_par = -sqrt(|1 - |r_out_perp|^2|) * n
            vadd(r_out_perp,
                 vscale(n, 0 - FSqrt(Abs(UnitScale * UnitScale - length_squared(r_out_perp)))))
        perp(w) == sum(Vec(ExactQuot(w.x * eta_in_over_eta_out[1], eta_in_over_eta_out[2]),
                           ExactQuot(w.y * eta_in_over_eta_out[1], eta_in_over_eta_out[2]),
                           ExactQuot(w.z * eta_in_over_eta_out[1], eta_in_over_eta_out[2])))
        bend(cos_theta) == perp(vadd(r_in, vscale(n, cos_theta)))
    IN  bend(clamp_unit(dot(vscale(r_in, 0 - 1), n)))

\* Schlick's approximation, as a fraction: r0 + (1 - r0) * (1 - cos_theta)^5
reflectance(cos_theta, refraction_index) ==
    LET schlick(r0n, r0d, x, y) == <<r0n * y + (r0d - r0n) * x, r0d * y>>
        fifth(a) == a * a * a * a * a
        with_r0(d, e) == schlick(d * d, e * e, fifth(UnitScale - cos_theta), fifth(UnitScale))
    IN  with_r0(refraction_index[2] - refraction_index[1],
                refraction_index[2] + refraction_index[1])

\* dielectric::scatter; random is the value random::<f64>() returns.  The
\* result names the branch that computed r_out.
dielectric_scatter(refraction_index, direction, front_face, face_normal, random) ==
    LET choose(r_in, eta, cos_theta, sin_theta, r) ==
            IF eta[1] * sin_theta > eta[2] * UnitScale
               \/ r[1] * random[2] > random[1] * r[2]
            THEN [branch |-> "reflect", r_in |-> r_in, r_out |-> reflect(r_in, face_normal)]
            ELSE [branch |-> "refract", r_in |-> r_in,
                  r_out |-> refract(r_in, face_normal, eta)]
        angles(r_in, eta, cos_theta) ==
            choose(r_in, eta, cos_theta,
                   FSqrt(UnitScale * UnitScale - cos_theta * cos_theta),
                   reflectance(cos_theta, eta))
        enter(r_in, eta) ==
            angles(r_in, eta, clamp_unit(dot(vscale(r_in, 0 - 1), face_normal)))
    IN  enter(to_unit(direction),
              IF front_face THEN <<refraction_index[2], refraction_index[1]>>
              ELSE refraction_index)

\* the refraction index 1.0
GeoIndices == {<<1, 1>>}
\* ray directions of length 5 and 10, from normal to grazing incidence on z = 0
GeoDirections ==
    {Vec(x, 0, z) : x \in {0 - 8, 0 - 6, 0 - 4, 0 - 3, 0, 3, 4, 5, 6, 8},
                    z \in {0 - 10, 0 - 8, 0 - 6, 0 - 5, 0 - 4, 0 - 3, 0, 3, 4, 5}}
    \cap {v \in [x : (0 - 10)..10, y : {0}, z : (0 - 10)..10] :
             length_squared(v) \in {25, 100}}
\* values of random::<f64>(), in [0, 1)
GeoRandoms == {<<0, 100>>, <<1, 100>>, <<50, 100>>, <<99, 100>>}

\* Dielectric { refraction_index }.scatter(ray, hit); compute_face_normal has
\* turned the normal against the ray, and front_face tells which side was hit
Scatter ==
    \E index \in GeoIndices, d \in GeoDirections, rnd \in GeoRandoms :
        /\ geo.op = "none"
        /\ geo' = [op |-> "scatter", refraction_index |-> index, direction |-> d,
                   front_face |-> d.z <= 0, random |-> rnd,
                   scatter |-> dielectric_scatter(index, d, d.z <= 0,
                                                  Vec(0, 0, IF d.z <= 0 THEN 1 ELSE 0 - 1),
                                                  rnd)]
        /\ UNCHANGED <<bvhVars, hitVars, placeholder_seen, camVars>>

----------------------------------------------------------------------------
(* BVH::hit as a function of the tree, for one query on the tree of a pair  *)
(* of surfaces.  left_first exchanges the two pushes of the Internal arm.   *)

\* the Internal arm with the pushes exchanged: the left child i + 1, then the
\* right child
push_children_left_first(st, i, maybe_right_idx, len) ==
    LET with_left == IF i + 1 < len THEN Append(st, i + 1) ELSE st
    IN  IF IsSome(maybe_right_idx) THEN Append(with_left, Unwrap(maybe_right_idx))
        ELSE with_left

\* the loop of BVH::hit from the state (st, best, shrunken) on; a tree of n
\* nodes is left after at most n pops
RECURSIVE hit_loop(_, _, _, _, _, _)
hit_loop(tree, r, st, best, shrunken, left_first) ==
    IF st = <<>> THEN [panic |-> "", acc |-> best]
    ELSE LET i == st[Len(st)]
             rest == Pop(st)
             curr == node(tree, i)
         IN  IF ~InBounds(tree, i) THEN [panic |-> "index out of bounds", acc |-> best]
             ELSE IF curr.kind = "Placeholder" THEN [panic |-> "unreachable", acc |-> best]
             ELSE IF ~aabb_hit(node_bounding_box(curr), r, shrunken)
             THEN hit_loop(tree, r, rest, best, shrunken, left_first)
             ELSE IF curr.kind = "Internal"
             THEN hit_loop(tree, r,
                           IF left_first
                           THEN push_children_left_first(rest, i, curr.right_idx, Len(tree))
                           ELSE push_children(rest, i, curr.right_idx, Len(tree)),
                           best, shrunken, left_first)
             ELSE LET go(taken) == hit_loop(tree, r, rest, taken[1], taken[2], left_first)
                  IN  go(take_hit(best, shrunken, surface_hit(curr.surface, r, shrunken)))

\* an axis-aligned square in the plane y = 2
Screen ==
    Surface(Quadrilateral(Vec(0 - 4, 2, 0 - 4), Vec(8, 0, 0), Vec(0, 0, 8)), "Metal")

\* the trees build_tree_rec makes of two surfaces, in either order
PairTrees ==
    {pair_nodes(0, a, b) : a \in {Diamond, Screen, SmallLeft, LargeRight},
                           b \in {Diamond, Screen, SmallUp}}

\* the rays of direct queries and a ray that descends through both quadrilaterals
PairRays == Rays \cup {Ray(Vec(0, 12, 4), Vec(0, 0 - 2, 0 - 1))}

\* BVH { tree }.hit(ray, ray_t), run with the pushes in the order of the source
\* and in the exchanged order
HitPair ==
    \E tree \in PairTrees, r \in PairRays, iv \in Intervals :
        /\ geo.op = "none"
        /\ geo' = [op |-> "hit pair", tree |-> tree, ray |-> r, ray_t |-> iv,
                   right_first |-> hit_loop(tree, r, <<0>>, None, iv, FALSE),
                   left_first |-> hit_loop(tree, r, <<0>>, None, iv, TRUE)]
        /\ UNCHANGED <<bvhVars, hitVars, placeholder_seen, camVars>>

\* boxes of AABB::new: a cube, a box flat in z, a box flat in x and z
HitBoxes ==
    {aabb_new(Vec(0 - 4, 0 - 4, 0 - 4), Vec(4, 4, 4)),
     aabb_new(Vec(4, 4, 0), Vec(0 - 4, 0 - 4, 0)),
     aabb_new(Vec(4, 0 - 4, 0), Vec(4, 4, 0))}

\* rays from on, inside and outside the boundaries, along axes and diagonals
HitRays ==
    {Ray(Vec(x, y, z), d) :
        x \in {0 - 4, 0, 4}, y \in {0 - 8, 0}, z \in {0 - 4, 0, 8},
        d \in {Vec(0, 1, 0), Vec(1, 0, 0), Vec(0, 0, 0 - 1), Vec(1, 1, 0), Vec(0, 1, 0 - 1)}}

\* AABB::hit(ray, ray_t), with the slab values t_0 and t_1 it computes first
AabbHit ==
    \E b \in HitBoxes, r \in HitRays, iv \in Intervals :
        /\ geo.op = "none"
        /\ geo' = [op |-> "aabb hit", box |-> b, ray |-> r, ray_t |-> iv,
                   t_0 |-> vdiv(vsub(b.min, r.origin), r.direction),
                   t_1 |-> vdiv(vsub(b.max, r.origin), r.direction),
                   hit |-> aabb_hit(b, r, iv)]
        /\ UNCHANGED <<bvhVars, hitVars, placeholder_seen, camVars>>

\* ---- the integer arithmetic of render_fork_union ----
\* A u32 or usize value is a little-endian sequence of base-256 digits, four
\* for u32 and eight for usize, so that the products keep their real width.
u32_from(n) ==
    <<n % 256, (n \div 256) % 256, (n \div 65536) % 256, n \div 16777216>>

RECURSIVE big_column(_, _, _, _)
big_column(a, b, k, i) ==
    IF i > Len(a) THEN 0
    ELSE (IF k + 1 - i \in 1..Len(b) THEN a[i] * b[k + 1 - i] ELSE 0)
             + big_column(a, b, k, i + 1)

RECURSIVE big_carry(_, _, _, _)
big_carry(a, b, k, carry) ==
    IF k > Len(a) + Len(b) THEN <<>>
    ELSE LET s == big_column(a, b, k, 1) + carry
         IN  <<s % 256>> \o big_carry(a, b, k + 1, s \div 256)

\* the mathematical product, Len(a) + Len(b) digits long
big_mul(a, b) == big_carry(a, b, 1, 0)

RECURSIVE big_trim(_)
big_trim(a) ==
    IF a # <<>> /\ a[Len(a)] = 0 THEN big_trim(SubSeq(a, 1, Len(a) - 1)) ELSE a

RECURSIVE big_less_digits(_, _, _)
big_less_digits(a, b, i) ==
    IF i = 0 THEN FALSE
    ELSE IF a[i] # b[i] THEN a[i] < b[i]
    ELSE big_less_digits(a, b, i - 1)

big_less(a, b) ==
    LET x == big_trim(a)
        y == big_trim(b)
    IN  IF Len(x) # Len(y) THEN Len(x) < Len(y) ELSE big_less_digits(x, y, Len(x))

big_add(a, b) ==
    LET n == (IF Len(a) > Len(b) THEN Len(a) ELSE Len(b)) + 1
        digit(q, i) == IF i <= Len(q) THEN q[i] ELSE 0
        carry[i \in 0..n] ==
            IF i = 0 THEN 0 ELSE (digit(a, i) + digit(b, i) + carry[i - 1]) \div 256
    IN  [i \in 1..n |-> (digit(a, i) + digit(b, i) + carry[i - 1]) % 256]

\* a - 1, for a # 0
RECURSIVE big_dec(_)
big_dec(a) ==
    IF a[1] > 0 THEN <<a[1] - 1>> \o Tail(a) ELSE <<255>> \o big_dec(Tail(a))

\* a / d for a divisor d below 2^23, by long division from the top digit
RECURSIVE big_div_rec(_, _, _, _)
big_div_rec(a, d, i, rem) ==
    IF i = 0 THEN <<>>
    ELSE LET cur == rem * 256 + a[i]
         IN  big_div_rec(a, d, i - 1, cur % d) \o <<cur \div d>>

big_div(a, d) == big_div_rec(a, d, Len(a), 0)

\* `as u32` of a usize keeps the low 32 bits
as_u32(a) == SubSeq(a \o <<0, 0, 0, 0>>, 1, 4)

\* a * b on u32: with overflow checks (the dev profile) a product that does
\* not fit panics, without them (the release profile) it wraps
u32_mul(a, b, overflow_checks) ==
    LET full == big_mul(a, b)
        overflow == SubSeq(full, 5, 8) # <<0, 0, 0, 0>>
    IN  [panic |-> overflow_checks /\ overflow, value |-> SubSeq(full, 1, 4)]

U32Values == {1, 2, 3, 64, 100, 8192, 65536}

\* The sizes and indices render_fork_union computes: the length of the sample
\* buffer, the pixel ordinal of the last sampling task, and the slice of the
\* last averaging task.  A panic ends the function, and what would have come
\* after it is None.
render_sizes(image_width, image_height, samples_per_pixel, overflow_checks) ==
    LET w == u32_from(image_width)
        h == u32_from(image_height)
        spp == u32_from(samples_per_pixel)
        wh == u32_mul(w, h, overflow_checks)
        whs == u32_mul(wh.value, spp, overflow_checks)
        alloc_panic == wh.panic \/ whs.panic
        samples_len == whs.value
        sampling(len) ==
            IF big_trim(len) = <<>> THEN None
            ELSE Some([task_index |-> big_dec(len),
                       ord |-> big_div(as_u32(big_dec(len)), samples_per_pixel)])
        pixels_len == big_mul(w, h)
        averaging(len, plen) ==
            LET task_index == big_dec(plen)
                start == u32_mul(as_u32(task_index), spp, overflow_checks)
                end == big_add(start.value, spp)
            IN  [task_index |-> task_index,
                 panic |-> start.panic \/ big_less(len, end),
                 start |-> start.value]
    IN  IF alloc_panic
        THEN [panic |-> TRUE, samples_len |-> None, pixels_len |-> None,
              last_sample |-> None, last_pixel |-> None]
        ELSE [panic |-> averaging(samples_len, pixels_len).panic,
              samples_len |-> Some(samples_len), pixels_len |-> Some(pixels_len),
              last_sample |-> sampling(samples_len),
              last_pixel |-> Some(averaging(samples_len, pixels_len))]

RenderSizes ==
    \E image_width \in U32Values, image_height \in U32Values,
       samples_per_pixel \in U32Values, overflow_checks \in BOOLEAN :
        /\ geo.op = "none"
        /\ geo' = [op |-> "render sizes", image_width |-> image_width,
                   image_height |-> image_height,
                   samples_per_pixel |-> samples_per_pixel,
                   overflow_checks |-> overflow_checks,
                   sizes |-> render_sizes(image_width, image_height,
                                          samples_per_pixel, overflow_checks)]
        /\ UNCHANGED <<bvhVars, hitVars, placeholder_seen, camVars>>

GeoNext ==
    SphereNew \/ GeoHit \/ MergeBoxes \/ Scatter \/ HitPair \/ AabbHit \/ RenderSizes

SpecGeo == Init /\ [][GeoNext]_vars

\* C3: whenever a geometry reports a hit, the hit point lies inside the
\* geometry's bounding box.
C3_HitInsideBoundingBox ==
    (geo.op = "hit" /\ IsSome(geo.hit)) => aabb_holds(geo.box, Unwrap(geo.hit).p)

\* C10: Geometry::sphere returns the construction error exactly when the
\* radius is negative, and otherwise a Sphere with the given center and radius.
C10_SphereConstructor ==
    geo.op = "sphere" =>
        /\ (geo.result.tag = "Err") <=> (~IsNaN(geo.radius) /\ geo.radius < 0)
        /\ geo.result.tag \in {"Ok", "Err"}
        /\ geo.result.tag = "Ok" =>
              geo.result.geometry = [kind |-> "Sphere", q |-> geo.center,
                                     radius |-> geo.radius, u |-> ZERO, v |-> ZERO]

C10_Witness ==
    /\ geo.op = "sphere" /\ geo.radius = 0 /\ geo.result.tag = "Ok"
    /\ geo.result.geometry.radius = 0 /\ geo.result.geometry.q = geo.center

\* no bound of the box is NaN
NoNaN(b) ==
    \A v \in {b.min.x, b.min.y, b.min.z, b.max.x, b.max.y, b.max.z} : ~IsNaN(v)

C14_UnitIndexNeverReflects ==
    (geo.op = "scatter" /\ geo.refraction_index = <<1, 1>>) =>
        /\ geo.scatter.branch = "refract"
        /\ geo.scatter.r_out = geo.scatter.r_in

----------------------------------------------------------------------------
(* Camera::ray_color.  The recursion is run with an explicit call stack:    *)
(* trace.pending holds, innermost last, the callers waiting for their       *)
(* recursive call.  The world is any Hittable: what it answers to a query   *)
(* is chosen freely; of the ray only its position in the path matters here. *)

MaxBounces == 3

\* Vector3 * Vector3, componentwise
vmul(a, b) == Vec(FMul(a.x, b.x), FMul(a.y, b.y), FMul(a.z, b.z))

\* enum Material; UVGradient carries the colour its emitted() computes from
\* the hit's (alpha, beta)
Materials ==
    {[kind |-> "Lambertian", colour |-> Vec(1, 2, 0)],
     [kind |-> "Metal", colour |-> Vec(2, 1, 1)],
     [kind |-> "Dielectric", colour |-> ZERO],
     [kind |-> "DiffuseLight", colour |-> Vec(4, 4, 3)],
     [kind |-> "UVGradient", colour |-> Vec(1, 0, 2)]}

\* Material::scatter: the attenuations of the Scatter values it can return
\* (the scattered ray is the next ray of the path), None when it can return None
material_scatter(material) ==
    CASE material.kind = "Lambertian" -> {Some(material.colour)}
      [] material.kind = "Metal" -> {Some(material.colour), None}
      [] material.kind = "Dielectric" -> {Some(Vec(1, 1, 1))}
      [] OTHER -> {None}

\* Material::emitted
material_emitted(material) ==
    IF material.kind \in {"DiffuseLight", "UVGradient"} THEN material.colour ELSE ZERO

\* comparison bodies for ray_color_body
ray_color_body_background_on_absorb(remaining_ray_bounces, found, scattered, background) ==
    IF remaining_ray_bounces = 0
    THEN [queried |-> FALSE, recurse |-> FALSE, value |-> ZERO, attenuation |-> ZERO]
    ELSE IF ~IsSome(found)
    THEN [queried |-> TRUE, recurse |-> FALSE, value |-> background, attenuation |-> ZERO]
    ELSE IF IsSome(scattered)
    THEN [queried |-> TRUE, recurse |-> TRUE, value |-> material_emitted(Unwrap(found)),
          attenuation |-> Unwrap(scattered)]
    ELSE [queried |-> TRUE, recurse |-> FALSE, value |-> background, attenuation |-> ZERO]

ray_color_body_queries_at_zero(remaining_ray_bounces, found, scattered, background) ==
    IF remaining_ray_bounces = 0
    THEN [queried |-> TRUE, recurse |-> FALSE, value |-> ZERO, attenuation |-> ZERO]
    ELSE IF ~IsSome(found)
    THEN [queried |-> TRUE, recurse |-> FALSE, value |-> background, attenuation |-> ZERO]
    ELSE IF IsSome(scattered)
    THEN [queried |-> TRUE, recurse |-> TRUE, value |-> material_emitted(Unwrap(found)),
          attenuation |-> Unwrap(scattered)]
    ELSE [queried |-> TRUE, recurse |-> FALSE, value |-> material_emitted(Unwrap(found)),
          attenuation |-> ZERO]

\* one invocation of ray_color up to its recursive call or its return: found is
\* the material world.hit answers with (None for no hit), scattered what
\* material.scatter returns.  queried: world.hit was called; recurse: the
\* invocation calls ray_color again, with value its `emitted`.
ray_color_body(remaining_ray_bounces, found, scattered, background) ==
    IF remaining_ray_bounces = 0
    THEN [queried |-> FALSE, recurse |-> FALSE, value |-> ZERO, attenuation |-> ZERO]
    ELSE IF ~IsSome(found)
    THEN [queried |-> TRUE, recurse |-> FALSE, value |-> background, attenuation |-> ZERO]
    ELSE IF IsSome(scattered)
    THEN [queried |-> TRUE, recurse |-> TRUE, value |-> material_emitted(Unwrap(found)),
          attenuation |-> Unwrap(scattered)]
    ELSE [queried |-> TRUE, recurse |-> FALSE, value |-> material_emitted(Unwrap(found)),
          attenuation |-> ZERO]

\* a caller's call of ray_color(ray, world, remaining_ray_bounces, background)
RayColorCall ==
    \E n \in 0..MaxBounces, background \in {Vec(3, 3, 4), Vec(0, 1, 0)} :
        /\ trace.pc = "idle"
        /\ trace' = [pc |-> "call", budget |-> n, background |-> background,
                     remaining |-> n, pending |-> <<>>, queries |-> 0, log |-> <<>>,
                     value |-> ZERO]
        /\ UNCHANGED <<bvhVars, hitVars, placeholder_seen, geo, render>>

\* the innermost invocation runs to its recursive call or to its return
RayColorStep ==
    /\ trace.pc = "call"
    /\ \E found \in {None} \cup {Some(m) : m \in Materials} :
         \E scattered \in (IF IsSome(found) THEN material_scatter(Unwrap(found)) ELSE {None}) :
            LET run(b) ==
                    trace' = [trace EXCEPT
                        !.pc = IF b.recurse THEN "call" ELSE "return",
                        !.queries = IF b.queried THEN @ + 1 ELSE @,
                        !.log = IF b.queried
                                THEN Append(@, [ray_t |-> Interval(10 * PadDelta, PInf),
                                                found |-> found, scattered |-> scattered])
                                ELSE @,
                        !.remaining = IF b.recurse THEN @ - 1 ELSE @,
                        !.pending = IF b.recurse
                                    THEN Append(@, [emitted |-> b.value,
                                                    attenuation |-> b.attenuation])
                                    ELSE @,
                        !.value = IF b.recurse THEN @ ELSE b.value]
            IN  run(ray_color_body(trace.remaining, found, scattered, trace.background))
    /\ UNCHANGED <<bvhVars, hitVars, placeholder_seen, geo, render>>

\* an invocation returns: its caller computes emitted + scattered, or the
\* outermost call is over
RayColorReturn ==
    /\ trace.pc = "return"
    /\ IF trace.pending = <<>>
       THEN trace' = [trace EXCEPT !.pc = "done"]
       ELSE LET resume(caller) ==
                    trace' = [trace EXCEPT
                        !.pending = SubSeq(@, 1, Len(@) - 1),
                        !.remaining = @ + 1,
                        !.value = vadd(caller.emitted, vmul(@, caller.attenuation))]
            IN  resume(trace.pending[Len(trace.pending)])
    /\ UNCHANGED <<bvhVars, hitVars, placeholder_seen, geo, render>>

TraceNext == RayColorCall \/ RayColorStep \/ RayColorReturn

SpecTrace == Init /\ [][TraceNext]_vars

\* C15: for a budget n > 0, ray_color returns the background when world.hit
\* finds nothing in (0.001, +inf); the material's emitted colour alone when the
\* material does not scatter; and emitted + attenuation * ray_color(scattered
\* ray, n - 1) when it scatters.
C15_RayColorEquation ==
    LET RECURSIVE colour(_, _)
        colour(i, n) ==
            IF n = 0 \/ i > Len(trace.log) THEN ZERO
            ELSE IF ~IsSome(trace.log[i].found) THEN trace.background
            ELSE IF ~IsSome(trace.log[i].scattered)
            THEN material_emitted(Unwrap(trace.log[i].found))
            ELSE vadd(material_emitted(Unwrap(trace.log[i].found)),
                      vmul(Unwrap(trace.log[i].scattered), colour(i + 1, n - 1)))
    IN  (trace.pc = "done" /\ trace.budget > 0) =>
            /\ trace.value = colour(1, trace.budget)
            /\ \A i \in 1..Len(trace.log) :
                   trace.log[i].ray_t = Interval(10 * PadDelta, PInf)

\* a finished call whose path scattered twice and then missed every surface
C15_Witness ==
    /\ trace.pc = "done" /\ trace.budget = 3 /\ Len(trace.log) = 3
    /\ IsSome(trace.log[1].scattered) /\ IsSome(trace.log[2].scattered)
    /\ ~IsSome(trace.log[3].found)
    /\ trace.value # ZERO

\* C16: with budget 0 ray_color returns black without querying the world; a
\* call with budget n makes at most n nearest-hit queries and nests at most n
\* recursive calls.
C16_BudgetBoundsWork ==
    trace.pc # "idle" =>
        /\ trace.queries <= trace.budget
        /\ Len(trace.pending) <= trace.budget
        /\ (trace.pc = "done" /\ trace.budget = 0) =>
                (trace.value = ZERO /\ trace.queries = 0)

\* the budget is used up: n queries, then the call at depth n returns black
C16_Witness ==
    /\ trace.pc = "return" /\ trace.budget = 3 /\ trace.queries = 3
    /\ Len(trace.pending) = 3 /\ trace.remaining = 0

----------------------------------------------------------------------------
(* InitializedCamera::render_fork_union, render_rayon and print_pixels.     *)
(* The worker pool runs one task per element of the buffer it is given,     *)
(* hands task `task_index` the element at that index, runs the tasks in any *)
(* order, and returns when all of them have run.  A task touches shared     *)
(* memory once, when it stores its result, so a task is one step.  Buffers  *)
(* are sequences: element i of the program is element i + 1 here.           *)
(* render.rays, render.written, render.writers, render.reads and            *)
(* render.shaded record what happened; the program does not hold them.      *)

MaxWidth == 3
MaxHeight == 2
MaxSamples == 2
MaxTasks == 8

\* the colours ray_color returns in this model (1 is the component value 1.0)
SampleColours == {Vec(1, 0, 0), Vec(0, 1, 2)}

\* for_each_prong_mut and for_each_prong_mut_dynamic of the fork_union crate:
\* the task indices still to run, one per element of the buffer; `ran` holds
\* those that have run
prongs(buffer, ran) == (0..(Len(buffer) - 1)) \ ran

\* comparison body for sample_pixel: rows and columns exchanged
sample_pixel_column_major(task_index, image_width, samples_per_pixel) ==
    LET of(ord) == [ord |-> ord, row |-> ord % image_width, col |-> ord \div image_width]
    IN  of(task_index \div samples_per_pixel)

\* the sampling task's ord, row and col
sample_pixel(task_index, image_width, samples_per_pixel) ==
    LET of(ord) == [ord |-> ord, row |-> ord \div image_width, col |-> ord % image_width]
    IN  of(task_index \div samples_per_pixel)

\* comparison body for sample_store: every task stores into the last element
sample_store_into_last(samples, color_out, color) ==
    [samples |-> [samples EXCEPT ![Len(samples)] = color], wrote |-> Len(samples), read |-> {}]

\* comparison body for sample_store: a shared accumulator
sample_store_accumulates(samples, color_out, color) ==
    [samples |-> [samples EXCEPT ![1] = vadd(@, color)], wrote |-> 1, read |-> {1}]

\* *color_out = ray_color(..): the buffer after the store, the element written
\* and the elements read
sample_store(samples, color_out, color) ==
    [samples |-> [samples EXCEPT ![color_out] = color], wrote |-> color_out, read |-> {}]

\* comparison body for average_pixel: the slice starts at ord
average_pixel_slice_at_ord(ord, samples, samples_per_pixel) ==
    LET RECURSIVE fold(_, _)
        fold(i, e) ==
            IF i > ord + samples_per_pixel THEN e ELSE fold(i + 1, vadd(e, samples[i]))
    IN  [ord |-> ord, color |-> [sum |-> fold(ord + 1, ZERO), den |-> samples_per_pixel]]

\* the averaging task: Pixel::new(ord, fold(ZERO, +) over
\* samples[start..start + samples_per_pixel] * pixel_samples_scale); the colour
\* is the fraction sum / den, pixel_samples_scale being 1.0 / samples_per_pixel
average_pixel(ord, samples, samples_per_pixel) ==
    LET RECURSIVE fold(_, _)
        fold(i, e) ==
            IF i > ord * samples_per_pixel + samples_per_pixel THEN e
            ELSE fold(i + 1, vadd(e, samples[i]))
    IN  [ord |-> ord,
         color |-> [sum |-> fold(ord * samples_per_pixel + 1, ZERO), den |-> samples_per_pixel]]

\* ppm_pixel: linear_to_gamma, intensity.clamp and the cast to u8 of each
\* component num / den: the largest i in 0..255 with i <= 255.999 * sqrt(num / den),
\* i.e. 10^6 * (65536 * num - i * i * den) >= 511999 * num
ppm_pixel(color) ==
    LET ok(i, num, d) == d >= 2148 \/ (d >= 0 /\ 1000000 * d >= 511999 * num)
        fits(i, num) == ok(i, num, 65536 * num - i * i * color.den)
        byte(num) ==
            IF num <= 0 THEN 0
            ELSE CHOOSE i \in 0..255 : fits(i, num) /\ (i = 255 \/ ~fits(i + 1, num))
    IN  <<byte(color.sum.x), byte(color.sum.y), byte(color.sum.z)>>

\* print_pixels: par_sort_unstable_by_key(ord), then one triple per pixel.
\* The set holds every output an unstable sort allows.
print_pixels(pixels, image_width, image_height) ==
    LET least(S) == {i \in S : \A j \in S : pixels[i].ord <= pixels[j].ord}
        RECURSIVE sorted(_)
        sorted(S) ==
            IF S = {} THEN {<<>>}
            ELSE UNION {{<<pixels[i]>> \o rest : rest \in sorted(S \ {i})} : i \in least(S)}
    IN  {[header |-> <<"P3", image_width, image_height, 255>>,
          body |-> [k \in 1..Len(q) |-> ppm_pixel(q[k].color)]] :
            q \in sorted(1..Len(pixels))}

\* render_fork_union up to the first for_each_prong, or render_rayon up to
\* its parallel iterator
RenderStart ==
    \E w \in 1..MaxWidth, h \in 1..MaxHeight, spp \in 1..MaxSamples,
       mode \in {"fork_union", "rayon"} :
        /\ render.pc = "idle"
        /\ w * h * spp <= MaxTasks
        /\ render' = [pc |-> IF mode = "rayon" THEN "rayon" ELSE "sampling",
                      mode |-> mode,
                      image_width |-> w, image_height |-> h, samples_per_pixel |-> spp,
                      samples |-> [i \in 1..(w * h * spp) |-> ZERO],
                      rays |-> [i \in 1..(w * h * spp) |-> None],
                      written |-> [i \in 1..(w * h * spp) |-> 0],
                      writers |-> [i \in 1..(w * h * spp) |-> {}],
                      reads |-> {},
                      ran |-> {},
                      pixels |-> IF mode = "rayon"
                                 THEN [i \in 1..(w * h) |-> None]
                                 ELSE <<>>,
                      averaged |-> {},
                      shaded |-> {},
                      out |-> None]
        /\ UNCHANGED <<bvhVars, hitVars, placeholder_seen, geo, trace>>

\* one task of for_each_prong_mut_dynamic(&mut pool, &mut samples, ..); after
\* the last one the call returns and the pixel buffer is allocated
SampleTask ==
    /\ render.pc = "sampling"
    /\ \E task_index \in prongs(render.samples, render.ran), color \in SampleColours :
         LET finish(px, st) ==
                render' = [render EXCEPT
                    !.samples = st.samples,
                    !.rays[st.wrote] = Some([col |-> px.col, row |-> px.row]),
                    !.written[st.wrote] = @ + 1,
                    !.writers[st.wrote] = @ \cup {task_index},
                    !.reads = @ \cup {<<task_index, i>> : i \in st.read},
                    !.ran = @ \cup {task_index},
                    !.pc = IF Cardinality(render.ran) + 1 = Len(render.samples)
                           THEN "averaging" ELSE "sampling",
                    !.pixels = IF Cardinality(render.ran) + 1 = Len(render.samples)
                               THEN [i \in 1..(render.image_width * render.image_height) |->
                                        [ord |-> 0, color |-> [sum |-> ZERO, den |-> 1]]]
                               ELSE @]
         IN  finish(sample_pixel(task_index, render.image_width, render.samples_per_pixel),
                    sample_store(render.samples, task_index + 1, color))
    /\ UNCHANGED <<bvhVars, hitVars, placeholder_seen, geo, trace>>

\* one task of for_each_prong_mut(&mut pool, &mut pixels, ..)
AverageTask ==
    /\ render.pc = "averaging"
    /\ \E task_index \in prongs(render.pixels, render.averaged) :
         render' = [render EXCEPT
             !.pixels[task_index + 1] =
                 average_pixel(task_index, render.samples, render.samples_per_pixel),
             !.averaged = @ \cup {task_index},
             !.pc = IF Cardinality(render.averaged) + 1 = Len(render.pixels)
                    THEN "collected" ELSE "averaging"]
    /\ UNCHANGED <<bvhVars, hitVars, placeholder_seen, geo, trace>>

\* one (row, col) item of render_rayon's parallel iterator; collect() keeps
\* the items in the iterator's order, rows outside and columns inside
RayonPixel ==
    /\ render.pc = "rayon"
    /\ \E row \in 0..(render.image_height - 1), col \in 0..(render.image_width - 1) :
         /\ render.pixels[row * render.image_width + col + 1] = None
         /\ \E sum \in {ZERO} \cup SampleColours \cup
                        {vadd(a, b) : a \in SampleColours, b \in SampleColours} :
              /\ render.samples_per_pixel = 1 => sum \in SampleColours
              /\ render.samples_per_pixel # 1 => sum \notin SampleColours \cup {ZERO}
              /\ LET place(pixel) ==
                         render' = [render EXCEPT
                             !.pixels[row * render.image_width + col + 1] = pixel,
                             !.shaded = @ \cup {[col |-> col, row |-> row,
                                                 color |-> pixel.color]},
                             !.pc = IF \A i \in 1..Len(render.pixels) :
                                          i = row * render.image_width + col + 1
                                          \/ render.pixels[i] # None
                                    THEN "collected" ELSE "rayon"]
                 IN  place([ord |-> row * render.image_width + col,
                            color |-> [sum |-> sum, den |-> render.samples_per_pixel]])
    /\ UNCHANGED <<bvhVars, hitVars, placeholder_seen, geo, trace>>

\* self.print_pixels(pixels)
PrintPixels ==
    /\ render.pc = "collected"
    /\ \E out \in print_pixels(render.pixels, render.image_width, render.image_height) :
         render' = [render EXCEPT !.pc = "printed", !.out = out]
    /\ UNCHANGED <<bvhVars, hitVars, placeholder_seen, geo, trace>>

RenderNext == RenderStart \/ SampleTask \/ AverageTask \/ RayonPixel \/ PrintPixels

SpecRender == Init /\ [][RenderNext]_vars

\* C11: once the tasks have all run, the image body has image_width *
\* image_height triples and the k-th triple is the colour of the pixel with
\* index k = row * image_width + col, whatever order the tasks ran in.  The
\* colour of pixel (col, row) is the average of the samples whose primary ray
\* was generated for (col, row).
C11_RowMajorBody ==
    LET RECURSIVE total(_)
        total(S) ==
            IF S = {} THEN ZERO
            ELSE LET i == CHOOSE x \in S : TRUE
                 IN  vadd(render.samples[i], total(S \ {i}))
        slots(col, row) ==
            {i \in 1..Len(render.samples) : render.rays[i] = Some([col |-> col, row |-> row])}
        triple(col, row) ==
            IF render.mode = "rayon"
            THEN {ppm_pixel(e.color) : e \in {x \in render.shaded : x.col = col /\ x.row = row}}
            ELSE {ppm_pixel([sum |-> total(slots(col, row)), den |-> render.samples_per_pixel])}
    IN  render.pc = "printed" =>
            /\ Len(render.out.body) = render.image_width * render.image_height
            /\ \A row \in 0..(render.image_height - 1), col \in 0..(render.image_width - 1) :
                   triple(col, row) = {render.out.body[row * render.image_width + col + 1]}

\* a printed 3 x 2 image of render_fork_union whose rows differ
C11_Witness ==
    /\ render.pc = "printed" /\ render.mode = "fork_union"
    /\ render.image_width = 3 /\ render.image_height = 2
    /\ render.out.body[1] # render.out.body[4]
    /\ render.out.body[2] # render.out.body[3]

\* C12: in render_fork_union the colour of pixel k is the sum of exactly
\* samples_per_pixel samples times 1 / samples_per_pixel, and each of them was
\* computed from a primary ray generated for pixel k (col = k mod image_width,
\* row = k div image_width): the samples of pixel k are those of the slice
\* [k * spp, (k + 1) * spp).
C12_PixelAveragesItsOwnSamples ==
    LET RECURSIVE total(_)
        total(S) ==
            IF S = {} THEN ZERO
            ELSE LET i == CHOOSE x \in S : TRUE
                 IN  vadd(render.samples[i], total(S \ {i}))
        slice(k) == (k * render.samples_per_pixel + 1)..((k + 1) * render.samples_per_pixel)
        own(k) ==
            {i \in 1..Len(render.samples) :
                render.rays[i] = Some([col |-> k % render.image_width,
                                       row |-> k \div render.image_width])}
    IN  (render.pc # "idle" /\ render.mode = "fork_union") =>
            \A k \in render.averaged :
                /\ render.pixels[k + 1].ord = k
                /\ render.pixels[k + 1].color =
                       [sum |-> total(slice(k)), den |-> render.samples_per_pixel]
                /\ Cardinality(slice(k)) = render.samples_per_pixel
                /\ own(k) = slice(k)

\* pixel 3 of a 2 x 2 image with 2 samples per pixel is averaged, before
\* pixel 0, from two different samples
C12_Witness ==
    /\ render.pc = "averaging" /\ render.mode = "fork_union"
    /\ render.image_width = 2 /\ render.image_height = 2 /\ render.samples_per_pixel = 2
    /\ 3 \in render.averaged /\ 0 \notin render.averaged
    /\ render.samples[7] # render.samples[8]
    /\ render.pixels[4].color.sum = vadd(render.samples[7], render.samples[8])

\* C13: in the sampling phase each task writes only its own slot: no two
\* tasks write the same slot, every slot is written exactly once, and no task
\* reads a slot written by another task, in whatever order the pool runs them.
C13_DisjointSlotWrites ==
    (render.pc # "idle" /\ render.mode = "fork_union") =>
        /\ \A i \in 1..Len(render.samples) :
               /\ render.written[i] <= 1
               /\ render.writers[i] \subseteq {i - 1}
               /\ render.written[i] = 1 <=> (i - 1) \in render.ran
        /\ \A access \in render.reads : render.writers[access[2]] \subseteq {access[1]}
        /\ render.pc # "sampling" => \A i \in 1..Len(render.samples) : render.written[i] = 1

\* the pool has run tasks 5 and 2 of 8, and no other yet
C13_Witness ==
    /\ render.pc = "sampling" /\ Len(render.samples) = 8
    /\ render.ran = {2, 5}
    /\ render.written[3] = 1 /\ render.written[6] = 1 /\ render.written[1] = 0

----------------------------------------------------------------------------
(* Further properties of the partitions, of construction and of BVH.hit    *)

\* C21: in the splits cache of every axis, for 1 <= n_left <= n - 1, entry
\* n_left holds left = the box of the first n_left surfaces in centroid order
\* and right = the box of the other n - n_left surfaces, and the lookup for a
\* plane returns the entry whose n_left is the number of surfaces with centroid
\* strictly below the plane.
C21_SplitsCacheEntries ==
    LET group == parted.group
        n == Len(group)
        RECURSIVE box_of(_, _, _)
        box_of(boxes, lo, hi) ==
            IF lo > hi THEN EMPTY ELSE merge(box_of(boxes, lo, hi - 1), boxes[hi])
        planes == IF parted.by.kind = "EqualSize"
                  THEN equal_size_planes(group, parted.by.buckets)
                  ELSE per_surface_planes(group)
        below(plane) ==
            {i \in 1..n :
                BelowPlane(get_component(plane[1], centroid(surface_bounding_box(group[i]))),
                           plane[2], plane[3])}
        sorted(axis) ==
            SortedOrders([i \in 1..n |-> surface_bounding_box(group[i])],
                         [i \in 1..n |->
                             get_component(axis, centroid(surface_bounding_box(group[i])))])
    IN  (parted.by.kind \in SAH /\ n >= 2) =>
            \A a \in 1..3 : \A sorted_boxes \in sorted(ALL[a]) :
                /\ \A n_left \in 1..(n - 1) :
                       /\ splits_of(sorted_boxes, ALL[a])[n_left + 1].left
                              = box_of(sorted_boxes, 1, n_left)
                       /\ splits_of(sorted_boxes, ALL[a])[n_left + 1].right
                              = box_of(sorted_boxes, n_left + 1, n)
                /\ \A k \in 1..Len(planes) :
                       planes[k][1] = ALL[a] =>
                           split_index(splits_of(sorted_boxes, ALL[a]),
                                       planes[k][2], planes[k][3])
                               = Cardinality(below(planes[k]))

\* C22: for a group of n >= 2 surfaces longest_axis_bisect_slice returns a
\* permutation of the group cut into a left part of floor(n/2) and a right part
\* of n - floor(n/2) surfaces, both non-empty, every left surface's box minimum
\* along the longest axis of the group's box being <= that of every right
\* surface; a build under bisect never fails.
C22_BisectSplits ==
    LET group == parted.group
        n == Len(group)
        seq == parted.result.seq
        mid == parted.result.mid
        count(q, x) == Cardinality({i \in 1..Len(q) : q[i] = x})
        key(surface) ==
            get_component(longest_axis(slice_bounding_box(group)),
                          surface_bounding_box(surface).min)
    IN  /\ (parted.by.kind = "LongestAxisBisectSlice" /\ n >= 2) =>
               /\ parted.result.panic = ""
               /\ mid = n \div 2 /\ 0 < mid /\ mid < n
               /\ Len(seq) = n
               /\ \A i \in 1..n : count(seq, group[i]) = count(group, group[i])
               /\ \A i \in 1..mid : \A j \in (mid + 1)..n : FLe(key(seq[i]), key(seq[j]))
        /\ partition_by.kind = "LongestAxisBisectSlice" => status \in {"building", "built"}

\* bisect has reordered a group of 3 and cut it 1 + 2
C22_Witness ==
    /\ parted.by.kind = "LongestAxisBisectSlice" /\ Len(parted.group) = 3
    /\ parted.result.seq # parted.group /\ parted.result.mid = 1
    /\ parted.result.seq[1] # parted.result.seq[2]

\* C23: longest_axis_midpoint returns a permutation of the group in which the
\* left part is exactly the surfaces whose box centroid along the longest axis
\* is strictly below the centroid of the group's box, and the right part is
\* exactly the others; the swap loop ends for every input.
C23_MidpointPartitions ==
    LET group == parted.group
        n == Len(group)
        seq == parted.result.seq
        mid == parted.result.mid
        count(q, x) == Cardinality({i \in 1..Len(q) : q[i] = x})
        axis == longest_axis(slice_bounding_box(group))
        below(surface) ==
            FLt(get_component(axis, centroid(surface_bounding_box(surface))),
                get_component(axis, centroid(slice_bounding_box(group))))
    IN  (parted.by.kind = "LongestAxisMidpoint" /\ n >= 1) =>
            /\ parted.result.panic = ""
            /\ Len(seq) = n /\ mid \in 0..n
            /\ \A i \in 1..n : count(seq, group[i]) = count(group, group[i])
            /\ \A i \in 1..mid : below(seq[i])
            /\ \A j \in (mid + 1)..n : ~below(seq[j])

\* the swap loop has exchanged surfaces of a group of 3
C23_Witness ==
    /\ parted.by.kind = "LongestAxisMidpoint" /\ Len(parted.group) = 3
    /\ parted.result.seq # parted.group
    /\ parted.result.mid \in 1..2

\* C24: at every step of a BVH.hit traversal the search interval keeps the
\* caller's lower bound and its upper bound never increases; once a best hit
\* exists it stays, the upper bound equals its t, that t is no larger than the
\* previous best t and than the t of the leaf hit accepted in this step, and it
\* lies within the caller's interval.
C24_IntervalShrinks ==
    [][LET visited ==
               IF stack # <<>> /\ InBounds(partial_nodes, stack[Len(stack)])
               THEN node(partial_nodes, stack[Len(stack)])
               ELSE Placeholder
           found ==
               IF visited.kind = "Leaf"
                  /\ aabb_hit(node_bounding_box(visited), ray, shrunken_ray_t)
               THEN surface_hit(visited.surface, ray, shrunken_ray_t)
               ELSE None
       IN  (hpc = "loop" /\ hpc' \in {"loop", "returned"}) =>
              /\ shrunken_ray_t'.min = ray_t.min
              /\ FLe(shrunken_ray_t'.max, shrunken_ray_t.max)
              /\ IsSome(acc) => IsSome(acc')
              /\ IsSome(found) => IsSome(acc')
              /\ IsSome(acc') =>
                    /\ shrunken_ray_t'.max = Unwrap(acc')[1].t
                    /\ IsSome(acc) => FLe(Unwrap(acc')[1].t, Unwrap(acc)[1].t)
                    /\ IsSome(found) => FLe(Unwrap(acc')[1].t, Unwrap(found)[1].t)
                    /\ FLe(ray_t.min, Unwrap(acc')[1].t)
                    /\ FLe(Unwrap(acc')[1].t, ray_t.max)]_vars

\* a query has found a hit in an interval that was unbounded above, in a tree
\* of 3 leaves, and is still running
C24_Witness ==
    /\ hpc = "loop" /\ IsSome(acc) /\ stack # <<>>
    /\ ray_t.max = PInf /\ shrunken_ray_t.max = Unwrap(acc)[1].t
    /\ Len(partial_nodes) = 5

\* C25: the nearest t BVH.hit returns does not depend on the order in which the
\* children of an Internal node are visited: with the left child pushed before
\* the right child the answer is the same (a hit or nothing, the same t).
C25_ChildOrderIrrelevant ==
    geo.op = "hit pair" =>
        /\ IsSome(geo.left_first.acc) <=> IsSome(geo.right_first.acc)
        /\ IsSome(geo.right_first.acc) =>
               Unwrap(geo.left_first.acc)[1].t = Unwrap(geo.right_first.acc)[1].t

\* C26: AABB.hit returns false whenever the slab computation of an axis
\* produces NaN (a zero direction component with the origin exactly on the
\* box's min or max boundary of that axis).
C26_NaNSlabIsNoHit ==
    (/\ geo.op = "aabb hit"
     /\ \E t \in {geo.t_0.x, geo.t_0.y, geo.t_0.z, geo.t_1.x, geo.t_1.y, geo.t_1.z} : IsNaN(t))
    => ~geo.hit

\* C27: in render_fork_union a pixel is averaged only after every one of its
\* samples has been written by the sampling phase, and the pixels are printed
\* only after every pixel has been averaged: no pixel colour is computed from
\* a sample element whose task has not run.
C27_PhasesInOrder ==
    (render.pc # "idle" /\ render.mode = "fork_union") =>
        /\ \A k \in render.averaged :
               \A i \in (k * render.samples_per_pixel + 1)..((k + 1) * render.samples_per_pixel) :
                   render.written[i] >= 1 /\ (i - 1) \in render.ran
        /\ render.averaged # {} => render.ran = 0..(Len(render.samples) - 1)
        /\ render.pc \in {"collected", "printed"} =>
               render.averaged = 0..(render.image_width * render.image_height - 1)

\* some pixels of a 2 x 2 image with 2 samples each are averaged, others not yet
C27_Witness ==
    /\ render.pc = "averaging" /\ render.mode = "fork_union"
    /\ Len(render.samples) = 8 /\ render.averaged = {1, 2}

\* C28: when construction completes on a non-empty input, the leaves of the
\* tree are a permutation of the input: every input surface is in exactly one
\* Leaf (as often as it occurs in the input) and no Leaf holds another surface.
C28_LeavesArePermutation ==
    LET leaves == SelectSeq(partial_nodes, LAMBDA nd : nd.kind = "Leaf")
        count(q, x) == Cardinality({i \in 1..Len(q) : q[i] = x})
    IN  (status = "built" /\ Len(input) >= 1) =>
            /\ Len(leaves) = Len(input)
            /\ \A i \in 1..Len(input) :
                   count([k \in 1..Len(leaves) |-> leaves[k].surface], input[i])
                       = count(input, input[i])
            /\ \A k \in 1..Len(leaves) : \E i \in 1..Len(input) : leaves[k].surface = input[i]

\* a tree built from 3 different surfaces, stored in another order than given
C28_Witness ==
    /\ status = "built" /\ Len(input) = 3 /\ Len(partial_nodes) = 5
    /\ Cardinality({input[i] : i \in 1..3}) = 3
    /\ surfaces # input

\* C29: during BVH.hit on a tree built from a non-empty collection every index
\* popped from or pushed on the stack is smaller than the tree length, and
\* after a pop every index on the stack is larger than the popped one: the
\* popped indices increase strictly, so no node is popped twice and the loop
\* ends after at most tree-length pops.
C29_StackIndices ==
    [][(hpc = "loop" /\ stack # <<>> /\ Len(input) >= 1) =>
          /\ InBounds(partial_nodes, stack[Len(stack)])
          /\ hpc' = "loop"
          /\ \A k \in 1..Len(stack') :
                 /\ InBounds(partial_nodes, stack'[k])
                 /\ stack'[k] > stack[Len(stack)]]_vars

\* both children of two Internal nodes have been pushed
C29_Witness ==
    /\ hpc = "loop" /\ Len(partial_nodes) = 5 /\ Len(stack) = 3

\* C30: for every camera configuration the 32-bit arithmetic of
\* render_fork_union never wraps: the sample buffer has exactly
\* image_width * image_height * samples_per_pixel entries, the last sampling
\* task (and so every one) converts to a pixel ordinal below
\* image_width * image_height, and the slice start of the last averaging task
\* (the largest ordinal) is the true product ord * samples_per_pixel.
C30_NoWrap ==
    geo.op = "render sizes" =>
        LET w == u32_from(geo.image_width)
            h == u32_from(geo.image_height)
            spp == u32_from(geo.samples_per_pixel)
            sz == geo.sizes
        IN  /\ ~sz.panic
            /\ big_trim(Unwrap(sz.samples_len)) = big_trim(big_mul(big_mul(w, h), spp))
            /\ IsSome(sz.last_sample)
            /\ big_less(Unwrap(sz.last_sample).ord, big_mul(w, h))
            /\ big_trim(Unwrap(sz.last_pixel).start)
                   = big_trim(big_mul(Unwrap(sz.last_pixel).task_index, spp))

====
